---- MODULE Spec2Model ----
(***************************************************************************)
(* Model of the tetron virtual file system (src/fs): path normalisation,  *)
(* the archive-backed store ZipFs, the disk-backed store DiskFs, the      *)
(* overlay combinator OverlayFs and the layer stack built at startup by   *)
(* Game::try_from.                                                         *)
(*                                                                         *)
(* A Rust string is a sequence of one-character strings, so that split,   *)
(* find, rfind, starts_with, ends_with and byte slicing are computed as   *)
(* the code computes them.  Result<T, FsError> is a record                *)
(* [ok |-> TRUE, val |-> v] or [ok |-> FALSE, err |-> kind].               *)
(***************************************************************************)
EXTENDS Naturals, Integers, Sequences, FiniteSets, TLC

VARIABLES phase, zipfs, args, fs, call, obj

vars ==
  <<phase, zipfs, args, fs, call, obj>>

----------------------------------------------------------------------------
(* Bounds *)

\* longest archive (number of records) handed to ZipFs::new
MaxEntries ==
  3

\* most layers handed to OverlayFs::from_layers
MaxLayers ==
  3

\* most --layer arguments on the command line
MaxLayerArgs ==
  2

----------------------------------------------------------------------------
(* Strings *)

\* byte value of a character: the order of str::cmp, used by BTreeSet and sort
Code(c) ==
  CASE c = "." -> 46
    [] c = "/" -> 47
    [] c = "a" -> 97
    [] c = "b" -> 98
    [] c = "c" -> 99
    [] c = "d" -> 100
    [] c = "e" -> 101
    [] c = "g" -> 103
    [] c = "j" -> 106
    [] c = "m" -> 109
    [] c = "n" -> 110
    [] c = "o" -> 111
    [] c = "r" -> 114
    [] c = "s" -> 115
    [] c = "x" -> 120

Slash ==
  "/"

Min(a, b) ==
  IF a < b THEN a ELSE b

\* s < t in the byte-wise lexicographic order of Rust's Ord for String
StrLess(s, t) ==
  \E k \in 1..(Min(Len(s), Len(t)) + 1) :
     /\ \A j \in 1..(k - 1) : s[j] = t[j]
     /\ \/ k > Len(s) /\ k <= Len(t)
        \/ k <= Len(s) /\ k <= Len(t) /\ Code(s[k]) < Code(t[k])

\* iteration order of a BTreeSet<String> / result of Vec::sort
RECURSIVE SortedSeq(_)
SortedSeq(S) ==
  IF S = {} THEN <<>>
  ELSE LET m == CHOOSE x \in S : \A y \in S \ {x} : StrLess(x, y)
       IN  <<m>> \o SortedSeq(S \ {m})

Range(q) ==
  {q[i] : i \in 1..Len(q)}

Reverse(q) ==
  [i \in 1..Len(q) |-> q[Len(q) + 1 - i]]

\* str::starts_with
starts_with(s, p) ==
  Len(p) <= Len(s) /\ SubSeq(s, 1, Len(p)) = p

\* str::ends_with for a single character
ends_with(s, c) ==
  Len(s) > 0 /\ s[Len(s)] = c

\* str::find('/'): 0-based byte position of the first '/', or -1 for None
find_slash(s) ==
  IF \E i \in 1..Len(s) : s[i] = Slash
  THEN (CHOOSE i \in 1..Len(s) : s[i] = Slash /\ \A j \in 1..(i - 1) : s[j] # Slash) - 1
  ELSE -1

\* str::rfind('/'): 0-based byte position of the last '/', or -1 for None
rfind_slash(s) ==
  IF \E i \in 1..Len(s) : s[i] = Slash
  THEN (CHOOSE i \in 1..Len(s) : s[i] = Slash /\ \A j \in (i + 1)..Len(s) : s[j] # Slash) - 1
  ELSE -1

\* str::split('/'): the segments between slashes, empty ones included
RECURSIVE split(_, _, _)
split(path, i, cur) ==
  IF i > Len(path) THEN <<cur>>
  ELSE IF path[i] = Slash THEN <<cur>> \o split(path, i + 1, <<>>)
  ELSE split(path, i + 1, Append(cur, path[i]))

\* the loop of normalize_path over the segments: skip "" and ".", pop on ".."
RECURSIVE normalize_parts(_, _, _)
normalize_parts(segs, i, parts) ==
  IF i > Len(segs) THEN parts
  ELSE LET part == segs[i] IN
       IF part = <<>> \/ part = <<".">> THEN normalize_parts(segs, i + 1, parts)
       ELSE IF part = <<".", ".">>
            THEN normalize_parts(segs, i + 1,
                                 IF Len(parts) = 0 THEN parts
                                 ELSE SubSeq(parts, 1, Len(parts) - 1))
            ELSE normalize_parts(segs, i + 1, Append(parts, part))

\* [&str]::join("/")
RECURSIVE join_slash(_)
join_slash(parts) ==
  IF Len(parts) = 0 THEN <<>>
  ELSE IF Len(parts) = 1 THEN parts[1]
  ELSE parts[1] \o <<Slash>> \o join_slash(Tail(parts))

\* the normalization of the first virtual file system: str::trim_matches('/')
normalize_trim_matches(path) ==
  LET lead == IF \E i \in 1..Len(path) : path[i] # Slash
              THEN CHOOSE i \in 1..Len(path) :
                     path[i] # Slash /\ \A j \in 1..(i - 1) : path[j] = Slash
              ELSE Len(path) + 1
      last == IF \E i \in 1..Len(path) : path[i] # Slash
              THEN CHOOSE i \in 1..Len(path) :
                     path[i] # Slash /\ \A j \in (i + 1)..Len(path) : path[j] = Slash
              ELSE Len(path)
  IN  SubSeq(path, lead, last)

\* a normalization that removes one leading and one trailing slash
normalize_strip_one(path) ==
  LET a == IF starts_with(path, <<Slash>>) THEN Tail(path) ELSE path
  IN  IF ends_with(a, Slash) THEN SubSeq(a, 1, Len(a) - 1) ELSE a

normalize_path(path) ==
  join_slash(normalize_parts(split(path, 1, <<>>), 1, <<>>))

\* a join that always puts a slash between its operands
join_always_slash(lhs, rhs) ==
  lhs \o <<Slash>> \o rhs

join_path(lhs, rhs) ==
  IF Len(lhs) = 0 THEN rhs
  ELSE IF Len(rhs) = 0 THEN lhs
  ELSE lhs \o <<Slash>> \o rhs

\* the directory a canonical path lies in
ParentOf(x) ==
  LET segs == split(x, 1, <<>>)
  IN  join_slash(SubSeq(segs, 1, Len(segs) - 1))

\* the last component of a canonical path
NameOf(x) ==
  LET segs == split(x, 1, <<>>)
  IN  segs[Len(segs)]

----------------------------------------------------------------------------
(* Results *)

Ok(v) ==
  [ok |-> TRUE, val |-> v]

Err(kind) ==
  [ok |-> FALSE, err |-> kind]

NotFound ==
  "NotFound"

Io ==
  "Io"

FileMetadata(len, is_dir) ==
  [len |-> len, is_dir |-> is_dir]

None ==
  [some |-> FALSE]

Some(v) ==
  [some |-> TRUE, val |-> v]

\* HashMap::insert
Put(m, k, v) ==
  [x \in (DOMAIN m) \cup {k} |-> IF x = k THEN v ELSE m[x]]

EmptyMap ==
  [x \in {} |-> 0]

----------------------------------------------------------------------------
(* Archive-backed store: src/fs/zip_fs.rs *)

\* A zip buffer that ZipArchive::new accepts is the sequence of its records.
\* A record has its raw name, its uncompressed bytes, and whether decoding
\* its data succeeds (sound = FALSE: read_to_end reports a CRC / inflate error).
Record(name, data, sound) ==
  [name |-> name, data |-> data, sound |-> sound]

ZipEntry(index, is_dir, len) ==
  [index |-> index, is_dir |-> is_dir, len |-> len]

\* a detection that looks at the first entry name only
detect_first_name_only(names) ==
  IF Len(names) = 0 THEN None
  ELSE LET prefix_pos == find_slash(names[1])
       IN  IF prefix_pos < 0 THEN None ELSE Some(SubSeq(names[1], 1, prefix_pos))

detect_and_strip_root_prefix(names) ==
  IF Len(names) = 0 THEN None
  ELSE LET first == names[1]
           prefix_pos == find_slash(first)
       IN  IF prefix_pos < 0 THEN None
           ELSE LET prefix == SubSeq(first, 1, prefix_pos)
                    prefix_slash == prefix \o <<Slash>>
                IN  IF \A i \in 1..Len(names) : starts_with(names[i], prefix_slash)
                    THEN Some(prefix)
                    ELSE None

\* let (parent, entry_name) = if let Some(pos) = norm.rfind('/') ...
split_parent(norm) ==
  LET pos == rfind_slash(norm)
  IN  IF pos >= 0
      THEN [parent |-> SubSeq(norm, 1, pos), entry_name |-> SubSeq(norm, pos + 2, Len(norm))]
      ELSE [parent |-> <<>>, entry_name |-> norm]

\* dir_map.entry(parent).or_default().insert(entry_name)
AddChild(dir_map, parent, entry_name) ==
  Put(dir_map, parent,
      (IF parent \in DOMAIN dir_map THEN dir_map[parent] ELSE {}) \cup {entry_name})

\* one iteration of the indexing loop of ZipFs::new, for the record at 0-based index i
index_entry(maps, file, i, prefix_len) ==
  LET name == SubSeq(file.name, prefix_len + 1, Len(file.name))
      norm == normalize_path(name)
      is_dir == ends_with(file.name, Slash)
      pe == split_parent(norm)
  IN  [entries |-> IF norm # <<>>
                   THEN Put(maps.entries, norm, ZipEntry(i, is_dir, Len(file.data)))
                   ELSE maps.entries,
       dir_map |-> AddChild(maps.dir_map, pe.parent, pe.entry_name)]

\* for i in 0..archive.len() { ... }
RECURSIVE index_entries(_, _, _, _)
index_entries(maps, buf, i, prefix_len) ==
  IF i >= Len(buf) THEN maps
  ELSE index_entries(index_entry(maps, buf[i + 1], i, prefix_len), buf, i + 1, prefix_len)

\* a construction that indexes the records of the archive only
synthesize_nothing(entries, dir_map) ==
  entries

\* for dir in dir_map.keys() { if !entries.contains_key(dir) && !dir.is_empty() ... }
synthesize_dirs(entries, dir_map) ==
  LET missing == {dir \in DOMAIN dir_map : dir \notin DOMAIN entries /\ dir # <<>>}
  IN  [x \in (DOMAIN entries) \cup missing |->
         IF x \in DOMAIN entries THEN entries[x] ELSE ZipEntry(0, TRUE, 0)]

ZipFs_new(buf) ==
  LET names == [i \in 1..Len(buf) |-> buf[i].name]
      root_prefix == detect_and_strip_root_prefix(names)
      prefix_len == IF root_prefix.some THEN Len(root_prefix.val) ELSE 0
      maps == index_entries([entries |-> EmptyMap, dir_map |-> EmptyMap], buf, 0, prefix_len)
  IN  [kind |-> "zip",
       buf |-> buf,
       entries |-> synthesize_dirs(maps.entries, maps.dir_map),
       dir_map |-> maps.dir_map]

ZipFs_read_dir(self, path) ==
  LET normalized == normalize_path(path)
  IN  IF normalized \in DOMAIN self.dir_map
      THEN LET set == SortedSeq(self.dir_map[normalized])
           IN  Ok([i \in 1..Len(set) |-> join_path(normalized, set[i])])
      ELSE Err(NotFound)

\* archive.by_index(index) followed by read_to_end
read_record(buf, index) ==
  IF index + 1 \in 1..Len(buf)
  THEN IF buf[index + 1].sound THEN Ok(buf[index + 1].data) ELSE Err(Io)
  ELSE Err(Io)

\* a lookup without the `if !zip_entry.is_dir` guard
file_index_any_entry(self, path) ==
  LET p == normalize_path(path)
  IN  IF p \in DOMAIN self.entries THEN Some(self.entries[p].index) ELSE None

\* match self.entries.get(&path) { Some(zip_entry) if !zip_entry.is_dir => ..., _ => NotFound }:
\* the physical index open_file hands to by_index, if any
file_index(self, path) ==
  LET p == normalize_path(path)
  IN  IF p \in DOMAIN self.entries /\ ~self.entries[p].is_dir
      THEN Some(self.entries[p].index)
      ELSE None

ZipFs_open_file(self, path) ==
  LET zip_entry == file_index(self, path)
  IN  IF zip_entry.some
      THEN read_record(self.buf, zip_entry.val)
      ELSE Err(NotFound)

ZipFs_metadata(self, path) ==
  LET p == normalize_path(path)
  IN  IF p \in DOMAIN self.entries
      THEN Ok(FileMetadata(self.entries[p].len, self.entries[p].is_dir))
      ELSE Err(NotFound)

ZipFs_exists(self, path) ==
  normalize_path(path) \in DOMAIN self.entries

----------------------------------------------------------------------------
(* The host file system the layers are resolved against *)

\* a physical path given on the command line: file stem and extension
HostPath(stem, ext) ==
  [stem |-> stem, ext |-> ext]

File(data, readable) ==
  [kind |-> "file", data |-> data, readable |-> readable]

Dir ==
  [kind |-> "dir", data |-> <<>>, readable |-> TRUE]

Missing ==
  [kind |-> "missing", data |-> <<>>, readable |-> FALSE]

\* the paths of the host trees and archives
C_ ==
  <<"c">>

S_ ==
  <<"s">>

SA_ ==
  <<"s", "/", "a">>

SB_ ==
  <<"s", "/", "b">>

E_ ==
  <<"e">>

GC_ ==
  <<"g", "/", "c">>

GSB_ ==
  <<"g", "/", "s", "/", "b">>

GE_ ==
  <<"g", "/", "e">>

GameJson ==
  <<"g", "a", "m", "e", ".", "j", "s", "o", "n">>

\* a byte that occurs in no UTF-8 text
BadByte ==
  255

\* directory foo: c, game.json, s/a and the empty directory e
FooTree ==
  (C_ :> File(<<1>>, TRUE)) @@ (GameJson :> File(<<2>>, TRUE))
    @@ (S_ :> Dir) @@ (SA_ :> File(<<3>>, TRUE)) @@ (E_ :> Dir)

\* directory mod1: an unreadable c, s/a and s/b
Mod1Tree ==
  (C_ :> File(<<4>>, FALSE))
    @@ (S_ :> Dir) @@ (SA_ :> File(<<5>>, TRUE)) @@ (SB_ :> File(<<6>>, TRUE))

\* archive mod2.zip: wrapped in g/, with c, s/b and a file called e
Mod2Zip ==
  << Record(GC_, <<7>>, TRUE),
     Record(GSB_, <<8>>, TRUE),
     Record(GE_, <<9>>, TRUE) >>

\* archive odd.zip: a game.json that is not UTF-8
OddZip ==
  << Record(GameJson, <<BadByte>>, TRUE) >>

\* what the operating system has at a physical path
HostFs(path) ==
  CASE path = HostPath("foo", "") -> [kind |-> "dir", tree |-> FooTree]
    [] path = HostPath("mod1", "") -> [kind |-> "dir", tree |-> Mod1Tree]
    [] path = HostPath("mod2", "zip") -> [kind |-> "file", zip |-> TRUE, records |-> Mod2Zip]
    [] path = HostPath("odd", "zip") -> [kind |-> "file", zip |-> TRUE, records |-> OddZip]
    [] path = HostPath("bad", "zip") -> [kind |-> "file", zip |-> FALSE, records |-> <<>>]
    [] path = HostPath("notes", "") -> [kind |-> "file", zip |-> FALSE, records |-> <<>>]
    [] OTHER -> [kind |-> "missing"]

HostPaths ==
  { HostPath("foo", ""), HostPath("mod1", ""), HostPath("mod2", "zip"),
    HostPath("odd", "zip"), HostPath("bad", "zip"), HostPath("notes", ""),
    HostPath("gone", "") }

----------------------------------------------------------------------------
(* Disk-backed store: src/fs/disk_fs.rs *)

DiskFs_new(p) ==
  [kind |-> "disk", base |-> p]

\* PathBuf::join: an absolute path replaces the base, a relative one is
\* appended to it
path_join(base, path) ==
  IF starts_with(path, <<Slash>>)
  THEN [base |-> HostPath("/", ""), rel |-> path]
  ELSE [base |-> base, rel |-> path]

\* a join of the base with the path as the caller gave it
disk_path_raw(self, path) ==
  path_join(self.base, path)

\* let path = normalize_path(path); let real = self.base.join(path);
\* the path every operation of DiskFs hands to the operating system
disk_path(self, path) ==
  path_join(self.base, normalize_path(path))

\* what the operating system finds at self.base.join(path), path normalised
real(self, path) ==
  LET host == HostFs(self.base)
  IN  IF host.kind # "dir" THEN Missing
      ELSE IF path = <<>> THEN Dir
      ELSE IF path \in DOMAIN host.tree THEN host.tree[path]
      ELSE Missing

\* fs::read_dir(&real): the file names in the directory, in the order the
\* operating system yields them (here: descending; the order is unspecified)
os_read_dir(self, path) ==
  LET tree == HostFs(self.base).tree
  IN  Reverse(SortedSeq({NameOf(x) : x \in {y \in DOMAIN tree : ParentOf(y) = path}}))

DiskFs_read_dir(self, path) ==
  LET p == normalize_path(path)
  IN  IF real(self, p).kind = "dir"
      THEN LET names == os_read_dir(self, p)
           IN  Ok([i \in 1..Len(names) |-> join_path(p, names[i])])
      ELSE Err(Io)

DiskFs_open_file(self, path) ==
  LET node == real(self, normalize_path(path))
  IN  IF node.kind = "file" /\ node.readable THEN Ok(node.data) ELSE Err(Io)

DiskFs_metadata(self, path) ==
  LET node == real(self, normalize_path(path))
  IN  IF node.kind # "missing"
      THEN Ok(FileMetadata(Len(node.data), node.kind = "dir"))
      ELSE Err(Io)

DiskFs_exists(self, path) ==
  real(self, normalize_path(path)).kind # "missing"

----------------------------------------------------------------------------
(* Layer resolver: src/fs/mod.rs *)

to_vfs_layer(layer) ==
  LET host == HostFs(layer)
  IN  IF layer.ext = "zip"
      THEN IF host.kind = "file" /\ host.zip
           THEN Ok(ZipFs_new(host.records))
           ELSE Err(Io)
      ELSE IF host.kind # "missing"
           THEN Ok(DiskFs_new(layer))
           ELSE Err(Io)

\* dynamic dispatch on Box<dyn SimpleFs>
Layer_read_dir(layer, path) ==
  IF layer.kind = "zip" THEN ZipFs_read_dir(layer, path) ELSE DiskFs_read_dir(layer, path)

Layer_open_file(layer, path) ==
  IF layer.kind = "zip" THEN ZipFs_open_file(layer, path) ELSE DiskFs_open_file(layer, path)

Layer_metadata(layer, path) ==
  IF layer.kind = "zip" THEN ZipFs_metadata(layer, path) ELSE DiskFs_metadata(layer, path)

Layer_exists(layer, path) ==
  IF layer.kind = "zip" THEN ZipFs_exists(layer, path) ELSE DiskFs_exists(layer, path)

----------------------------------------------------------------------------
(* Inputs *)

\* the records archives are made of: a wrapped tree g/..., loose root files,
\* an explicit directory record, a file that is also an ancestor, a record
\* whose data does not decode, and a name that climbs out of its first segment
RawRecords ==
  {
    (* "g/" *) Record(<<"g", "/">>, <<>>, TRUE),
    (* "g/a/b/c" *) Record(<<"g", "/", "a", "/", "b", "/", "c">>, <<1>>, TRUE),
    (* "g/x" *) Record(<<"g", "/", "x">>, <<2, 2>>, TRUE),
    (* "x" *) Record(<<"x">>, <<3>>, TRUE),
    (* "a/b" *) Record(<<"a", "/", "b">>, <<4>>, TRUE),
    (* "a/" *) Record(<<"a", "/">>, <<>>, TRUE),
    (* "a" *) Record(<<"a">>, <<5>>, TRUE),
    (* "g/a" *) Record(<<"g", "/", "a">>, <<6>>, FALSE),
    (* "g/../x" *) Record(<<"g", "/", ".", ".", "/", "x">>, <<7>>, TRUE)
  }

\* every archive of at most MaxEntries records, in every order
Archives ==
  UNION {[1..n -> RawRecords] : n \in 0..MaxEntries}

\* the path strings handed to the operations, canonical or not
Requests ==
  {
    (* "" *) <<>>,
    (* "a" *) <<"a">>,
    (* "a/b" *) <<"a", "/", "b">>,
    (* "a/b/c" *) <<"a", "/", "b", "/", "c">>,
    (* "g" *) <<"g">>,
    (* "g/a" *) <<"g", "/", "a">>,
    (* "g/x" *) <<"g", "/", "x">>,
    (* "x" *) <<"x">>,
    (* "/a/" *) <<"/", "a", "/">>,
    (* "a/./b" *) <<"a", "/", ".", "/", "b">>,
    (* "a/../x" *) <<"a", "/", ".", ".", "/", "x">>,
    (* ".." *) <<".", ".">>,
    (* "b" *) <<"b">>,
    (* "g/a/b" *) <<"g", "/", "a", "/", "b">>
  }

----------------------------------------------------------------------------
(* State *)

NoStore ==
  [kind |-> "none"]

NoArgs ==
  [kind |-> "none"]

NoCall ==
  [op |-> "none"]

\* obj is the engine object a specification exercises besides the stores
\* (the key state, a scene, a behaviour, the module resolver, reader
\* threads); the specifications of the stores leave it out
NoObject ==
  [kind |-> "none"]

Call(target, op, path, result) ==
  [target |-> target, op |-> op, path |-> path, result |-> result]

----------------------------------------------------------------------------
(* Overlay combinator: src/fs/overlay_fs.rs *)

\* a constructor that keeps the caller's order
from_layers_in_order(layers) ==
  [kind |-> "overlay", layers |-> layers]

OverlayFs_from_layers(layers) ==
  [kind |-> "overlay", layers |-> Reverse(layers)]

\* a lookup that hands back the error of the last layer it asked
first_ok_or_last_error(results) ==
  IF \E i \in 1..Len(results) : results[i].ok
  THEN results[CHOOSE i \in 1..Len(results) :
                 results[i].ok /\ \A j \in 1..(i - 1) : ~results[j].ok]
  ELSE IF Len(results) = 0 THEN Err(NotFound)
  ELSE results[Len(results)]

\* for fs in &self.layers { if let Ok(r) = ... { return Ok(r) } } Err(NotFound)
first_ok(results) ==
  IF \E i \in 1..Len(results) : results[i].ok
  THEN results[CHOOSE i \in 1..Len(results) :
                 results[i].ok /\ \A j \in 1..(i - 1) : ~results[j].ok]
  ELSE Err(NotFound)

\* a listing taken from the first layer that has one
read_dir_first_layer(self, path) ==
  first_ok([i \in 1..Len(self.layers) |-> Layer_read_dir(self.layers[i], normalize_path(path))])

OverlayFs_read_dir(self, path) ==
  LET p == normalize_path(path)
      listings == [i \in 1..Len(self.layers) |-> Layer_read_dir(self.layers[i], p)]
      found == {i \in 1..Len(listings) : listings[i].ok}
      all == UNION {Range(listings[i].val) : i \in found}
      entries_found == \E i \in found : Len(listings[i].val) > 0
  IN  IF ~entries_found THEN Err(NotFound) ELSE Ok(SortedSeq(all))

OverlayFs_open_file(self, path) ==
  LET p == normalize_path(path)
  IN  first_ok([i \in 1..Len(self.layers) |-> Layer_open_file(self.layers[i], p)])

\* a metadata lookup in which the lowest layer that has the path wins
metadata_lowest_layer(self, path) ==
  LET p == normalize_path(path)
  IN  first_ok(Reverse([i \in 1..Len(self.layers) |-> Layer_metadata(self.layers[i], p)]))

OverlayFs_metadata(self, path) ==
  LET p == normalize_path(path)
  IN  first_ok([i \in 1..Len(self.layers) |-> Layer_metadata(self.layers[i], p)])

\* an existence test that asks the topmost layer only
exists_topmost_only(self, path) ==
  Len(self.layers) > 0 /\ Layer_exists(self.layers[1], normalize_path(path))

OverlayFs_exists(self, path) ==
  LET p == normalize_path(path)
  IN  \E i \in 1..Len(self.layers) : Layer_exists(self.layers[i], p)

\* String::from_utf8(bytes)
from_utf8(bytes) ==
  IF \A i \in 1..Len(bytes) : bytes[i] < 128
  THEN Ok([utf8 |-> bytes])
  ELSE Err("ReadError")

\* a text read that goes on to a lower layer when the bytes do not decode
read_text_any_layer(self, path) ==
  first_ok([i \in 1..Len(self.layers) |->
              LET bytes == Layer_open_file(self.layers[i], normalize_path(path))
              IN  IF bytes.ok THEN from_utf8(bytes.val) ELSE bytes])

\* SimpleFs::read_text_file, on the overlay
read_text_file(self, path) ==
  LET bytes == OverlayFs_open_file(self, path)
  IN  IF bytes.ok THEN from_utf8(bytes.val) ELSE bytes

----------------------------------------------------------------------------
(* Startup: src/engine/mod.rs *)

TetronArgs(game, layers) ==
  [kind |-> "cli", game |-> game, layers |-> layers]

\* cwd.join(path).canonicalize()
resolve_physical_fs_path(path) ==
  IF HostFs(path).kind = "missing" THEN Err(Io) ELSE Ok(path)

\* the Vec<Box<dyn SimpleFs>> that Game::try_from hands to from_layers:
\* the game first, then the --layer arguments from the last to the first
resolve_layers(a) ==
  LET game_path == resolve_physical_fs_path(a.game.val)
      given == <<game_path.val>> \o Reverse(a.layers)
      resolved == [i \in 1..Len(given) |-> to_vfs_layer(given[i])]
  IN  IF ~game_path.ok THEN Err(Io)
      ELSE IF \E i \in 1..Len(resolved) : ~resolved[i].ok THEN Err(Io)
      ELSE Ok([i \in 1..Len(resolved) |-> resolved[i].val])

\* Game::try_from followed by Game::new; rest_ok: the configuration parses and
\* the window, the fonts and the scripting host come up
Game_try_from(a, rest_ok) ==
  IF ~a.game.some THEN [phase |-> "exited", fs |-> NoStore]
  ELSE LET layers == resolve_layers(a)
       IN  IF ~layers.ok THEN [phase |-> "failed", fs |-> NoStore]
           ELSE LET overlay == OverlayFs_from_layers(layers.val)
                    json == read_text_file(overlay, GameJson)
                IN  IF json.ok /\ rest_ok
                    THEN [phase |-> "running", fs |-> overlay]
                    ELSE [phase |-> "failed", fs |-> NoStore]

----------------------------------------------------------------------------
(* The archive-backed store on its own *)

InitZip ==
  /\ phase = "init"
  /\ zipfs = NoStore
  /\ args = NoArgs
  /\ fs = NoStore
  /\ call = NoCall
  /\ obj = NoObject

\* ZipFs::new(buf) on a buffer that parses
ZipNew ==
  /\ phase = "init"
  /\ \E buf \in Archives : zipfs' = ZipFs_new(buf)
  /\ phase' = "zip"
  /\ UNCHANGED <<args, fs, call>>
  /\ UNCHANGED obj

ZipReadDir ==
  /\ phase = "zip"
  /\ \E p \in Requests : call' = Call("zip", "read_dir", p, ZipFs_read_dir(zipfs, p))
  /\ UNCHANGED <<phase, zipfs, args, fs>>
  /\ UNCHANGED obj

ZipOpenFile ==
  /\ phase = "zip"
  /\ \E p \in Requests :
        call' = Call("zip", "open_file", p, ZipFs_open_file(zipfs, p))
                  @@ [deref |-> file_index(zipfs, p)]
  /\ UNCHANGED <<phase, zipfs, args, fs>>
  /\ UNCHANGED obj

ZipMetadata ==
  /\ phase = "zip"
  /\ \E p \in Requests : call' = Call("zip", "metadata", p, ZipFs_metadata(zipfs, p))
  /\ UNCHANGED <<phase, zipfs, args, fs>>
  /\ UNCHANGED obj

ZipExists ==
  /\ phase = "zip"
  /\ \E p \in Requests : call' = Call("zip", "exists", p, ZipFs_exists(zipfs, p))
  /\ UNCHANGED <<phase, zipfs, args, fs>>
  /\ UNCHANGED obj

NextZip ==
  \/ ZipNew
  \/ ZipReadDir
  \/ ZipOpenFile
  \/ ZipMetadata
  \/ ZipExists

SpecZip ==
  InitZip /\ [][NextZip]_vars

----------------------------------------------------------------------------
(* The overlay, built directly or at startup *)

\* the stores a caller can hand to from_layers
Stores ==
  {to_vfs_layer(h).val : h \in {x \in HostPaths : to_vfs_layer(x).ok}}

LayerLists ==
  UNION {[1..n -> Stores] : n \in 0..MaxLayers}

LayerArgs ==
  UNION {[1..n -> HostPaths] : n \in 0..MaxLayerArgs}

\* the path strings handed to the overlay
OverlayRequests ==
  {
    (* "" *) <<>>,
    (* "c" *) <<"c">>,
    (* "s" *) <<"s">>,
    (* "s/a" *) <<"s", "/", "a">>,
    (* "s/b" *) <<"s", "/", "b">>,
    (* "e" *) <<"e">>,
    (* "game.json" *) <<"g", "a", "m", "e", ".", "j", "s", "o", "n">>,
    (* "/s/" *) <<"/", "s", "/">>,
    (* "s/../c" *) <<"s", "/", ".", ".", "/", "c">>,
    (* "x" *) <<"x">>
  }

Init ==
  /\ phase = "init"
  /\ zipfs = NoStore
  /\ args = NoArgs
  /\ fs = NoStore
  /\ call = NoCall
  /\ obj = NoObject

\* OverlayFs::from_layers(layers)
FromLayers ==
  /\ phase = "init"
  /\ \E layers \in LayerLists :
        /\ args' = [kind |-> "from_layers", layers |-> layers]
        /\ fs' = OverlayFs_from_layers(layers)
  /\ phase' = "mounted"
  /\ UNCHANGED <<zipfs, call>>
  /\ UNCHANGED obj

\* Game::try_from(args)
TryFrom ==
  /\ phase = "init"
  /\ \E game \in {None} \cup {Some(h) : h \in HostPaths}, layers \in LayerArgs,
        rest_ok \in BOOLEAN :
        LET a == TetronArgs(game, layers)
            started == Game_try_from(a, rest_ok)
        IN  /\ args' = a
            /\ phase' = started.phase
            /\ fs' = started.fs
  /\ UNCHANGED <<zipfs, call>>
  /\ UNCHANGED obj

Mounted ==
  phase \in {"mounted", "running"}

OverlayReadDir ==
  /\ Mounted
  /\ \E p \in OverlayRequests : call' = Call("overlay", "read_dir", p, OverlayFs_read_dir(fs, p))
  /\ UNCHANGED <<phase, zipfs, args, fs>>
  /\ UNCHANGED obj

OverlayOpenFile ==
  /\ Mounted
  /\ \E p \in OverlayRequests : call' = Call("overlay", "open_file", p, OverlayFs_open_file(fs, p))
  /\ UNCHANGED <<phase, zipfs, args, fs>>
  /\ UNCHANGED obj

OverlayMetadata ==
  /\ Mounted
  /\ \E p \in OverlayRequests : call' = Call("overlay", "metadata", p, OverlayFs_metadata(fs, p))
  /\ UNCHANGED <<phase, zipfs, args, fs>>
  /\ UNCHANGED obj

OverlayExists ==
  /\ Mounted
  /\ \E p \in OverlayRequests : call' = Call("overlay", "exists", p, OverlayFs_exists(fs, p))
  /\ UNCHANGED <<phase, zipfs, args, fs>>
  /\ UNCHANGED obj

OverlayReadTextFile ==
  /\ Mounted
  /\ \E p \in OverlayRequests :
        call' = Call("overlay", "read_text_file", p, read_text_file(fs, p))
  /\ UNCHANGED <<phase, zipfs, args, fs>>
  /\ UNCHANGED obj

Next ==
  \/ FromLayers
  \/ TryFrom
  \/ OverlayReadDir
  \/ OverlayOpenFile
  \/ OverlayMetadata
  \/ OverlayExists
  \/ OverlayReadTextFile

Spec ==
  Init /\ [][Next]_vars

----------------------------------------------------------------------------
(* Properties of the overlay *)

\* the canonical path the last call was about
Asked ==
  normalize_path(call.path)

OverlayCalled(op) ==
  Mounted /\ call.op = op

\* the layers in the order they were handed to OverlayFs::from_layers
Supplied ==
  IF args.kind = "from_layers" THEN args.layers ELSE resolve_layers(args).val

\* what one layer answers to the operation of the last call, on the normalised path
LayerAnswer(layer) ==
  CASE call.op = "open_file" -> Layer_open_file(layer, Asked)
    [] call.op = "metadata" -> Layer_metadata(layer, Asked)
    [] call.op = "read_dir" -> Layer_read_dir(layer, Asked)

\* given the layers from the lowest to the highest precedence: the answer of
\* the highest one that succeeds
HighestPrecedence(layers) ==
  LET succeed == {k \in 1..Len(layers) : LayerAnswer(layers[k]).ok}
  IN  IF succeed = {} THEN Err(NotFound)
      ELSE LayerAnswer(layers[CHOOSE k \in succeed : \A j \in succeed : j <= k])

\* C1: open_file and metadata return the answer of the layer passed last to
\* from_layers among those that succeed for the normalised path - one layer's
\* answer, never a merge - and a lower layer's only if all higher ones fail.
C1_LastLayerWins ==
  OverlayCalled("open_file") \/ OverlayCalled("metadata") =>
    /\ call.result = HighestPrecedence(Supplied)
    /\ call.result.ok =>
         \E k \in 1..Len(Supplied) :
            /\ call.result = LayerAnswer(Supplied[k])
            /\ \A j \in (k + 1)..Len(Supplied) : ~LayerAnswer(Supplied[j]).ok

\* C1 witness: a file that two layers hold with different bytes was opened
C1_Witness ==
  /\ OverlayCalled("open_file")
  /\ args.kind = "from_layers"
  /\ \E j, k \in 1..Len(Supplied) :
        /\ j < k
        /\ LayerAnswer(Supplied[j]).ok
        /\ LayerAnswer(Supplied[k]).ok
        /\ LayerAnswer(Supplied[j]) # LayerAnswer(Supplied[k])
        /\ call.result = LayerAnswer(Supplied[k])

\* C2: after `--game foo --layer mod1 --layer mod2` a file is looked up in
\* mod2, then mod1, then foo: a later --layer argument takes precedence over
\* an earlier one, and every layer over the base game.
C2_LaterLayerArgumentWins ==
  phase = "running" /\ call.op = "open_file" =>
    LET given == <<args.game.val>> \o args.layers
    IN  call.result = HighestPrecedence([i \in 1..Len(given) |-> to_vfs_layer(given[i]).val])

\* C3: a successful read_dir returns the union of the listings of the layers
\* whose read_dir succeeds, each path once, in ascending order, whatever the
\* order of the layers.
C3_ReadDirUnionSorted ==
  OverlayCalled("read_dir") /\ call.result.ok =>
    /\ Range(call.result.val) =
         UNION {Range(LayerAnswer(layer).val) :
                  layer \in {l \in Range(Supplied) : LayerAnswer(l).ok}}
    /\ \A i \in 1..(Len(call.result.val) - 1) :
          StrLess(call.result.val[i], call.result.val[i + 1])

\* C3 witness: a directory listed from two layers whose listings overlap and differ
C3_Witness ==
  /\ OverlayCalled("read_dir")
  /\ call.result.ok
  /\ Len(call.result.val) > 1
  /\ \E j, k \in 1..Len(Supplied) :
        /\ LayerAnswer(Supplied[j]).ok
        /\ LayerAnswer(Supplied[k]).ok
        /\ Range(LayerAnswer(Supplied[j]).val) \cap Range(LayerAnswer(Supplied[k]).val) # {}
        /\ Range(LayerAnswer(Supplied[j]).val) \ Range(LayerAnswer(Supplied[k]).val) # {}

\* C4: read_dir succeeds whenever the read_dir of at least one layer
\* succeeds, an empty listing included; it is NotFound only if no layer has
\* the path as a directory.
C4_ReadDirSucceedsIfALayerDoes ==
  OverlayCalled("read_dir") /\ (\E k \in 1..Len(Supplied) : LayerAnswer(Supplied[k]).ok)
    => call.result.ok

\* C5: exists is true iff exists of at least one layer is true for the
\* normalised path, and it is false, not an error, for a path no layer has.
C5_ExistsIffSomeLayer ==
  OverlayCalled("exists") =>
    /\ call.result \in BOOLEAN
    /\ call.result = TRUE <=> \E k \in 1..Len(Supplied) : Layer_exists(Supplied[k], Asked)

\* C5 witness: exists of a path that only a layer below the topmost one has
C5_Witness ==
  /\ OverlayCalled("exists")
  /\ Len(Supplied) > 1
  /\ ~Layer_exists(Supplied[Len(Supplied)], Asked)
  /\ call.result = TRUE

----------------------------------------------------------------------------
(* Properties of the archive-backed store *)

ZipCalled(op) ==
  phase = "zip" /\ call.op = op

\* d is one of s1, s1/s2, ..., s1/.../s(n-1) for the canonical path f = s1/.../sn
IsProperAncestor(d, f) ==
  d # <<>> /\ starts_with(f, d \o <<Slash>>)

\* the first '/'-delimited segment of the first entry name
FirstSegment(buf) ==
  split(buf[1].name, 1, <<>>)[1]

\* every entry name starts with that segment followed by '/'
HasRootPrefix(buf) ==
  /\ Len(buf) > 0
  /\ \A i \in 1..Len(buf) : starts_with(buf[i].name, FirstSegment(buf) \o <<Slash>>)

\* the name of record i without the root prefix, normalised
Canon(buf, i) ==
  normalize_path(IF HasRootPrefix(buf)
                 THEN SubSeq(buf[i].name, Len(FirstSegment(buf)) + 1, Len(buf[i].name))
                 ELSE buf[i].name)

IsFileRecord(buf, i) ==
  ~ends_with(buf[i].name, Slash)

\* the canonical paths of the file entries of the store
FilePaths ==
  {f \in DOMAIN zipfs.entries : ~zipfs.entries[f].is_dir}

\* C6: every proper ancestor directory of every file entry exists and has
\* metadata with is_directory = true, with or without a record of its own.
C6_AncestorsExist ==
  /\ ZipCalled("exists") /\ (\E f \in FilePaths : IsProperAncestor(Asked, f))
       => call.result = TRUE
  /\ ZipCalled("metadata") /\ (\E f \in FilePaths : IsProperAncestor(Asked, f))
       => call.result.ok /\ call.result.val.is_dir

\* the paths of the store that lie immediately in directory d
ChildrenOf(d) ==
  {x \in DOMAIN zipfs.entries : ParentOf(x) = d}

NoDuplicates(q) ==
  \A i, j \in 1..Len(q) : q[i] = q[j] => i = j

\* C7: read_dir(d) lists exactly the paths of the store whose parent is d,
\* each once, and so lists an inferred directory in its own parent.
C7_ReadDirImmediateChildren ==
  ZipCalled("read_dir") =>
    /\ call.result.ok =>
         /\ Range(call.result.val) = ChildrenOf(Asked)
         /\ NoDuplicates(call.result.val)
    /\ ChildrenOf(Asked) # {} => call.result.ok

\* the entry name n denotes the path x or something below it
Under(n, x) ==
  n = x \/ starts_with(n, x \o <<Slash>>)

C9_ListableIsDirectory ==
  /\ ZipCalled("exists") /\ ZipFs_read_dir(zipfs, call.path).ok
       => call.result = TRUE
  /\ ZipCalled("metadata") /\ ZipFs_read_dir(zipfs, call.path).ok
       => call.result.ok /\ call.result.val.is_dir

\* C9, amended: every path other than the root whose read_dir succeeds exists
\* and has metadata; is_directory is true unless a file record of the archive
\* has that canonical path.  The root never exists and has no metadata.
C9_ListableNonRootExists ==
  /\ ZipCalled("exists") /\ Asked = <<>> => call.result = FALSE
  /\ ZipCalled("metadata") /\ Asked = <<>> => call.result = Err(NotFound)
  /\ ZipCalled("exists") /\ Asked # <<>> /\ ZipFs_read_dir(zipfs, call.path).ok
       => call.result = TRUE
  /\ ZipCalled("metadata") /\ Asked # <<>> /\ ZipFs_read_dir(zipfs, call.path).ok
       => /\ call.result.ok
          /\ \/ call.result.val.is_dir
             \/ \E i \in 1..Len(zipfs.buf) :
                   IsFileRecord(zipfs.buf, i) /\ Canon(zipfs.buf, i) = Asked

\* C9 witness: metadata of a listable directory that no record of the archive names
C9_Witness ==
  /\ ZipCalled("metadata")
  /\ Asked # <<>>
  /\ ZipFs_read_dir(zipfs, call.path).ok
  /\ \A i \in 1..Len(zipfs.buf) : Canon(zipfs.buf, i) # Asked
  /\ call.result.ok /\ call.result.val.is_dir

\* C10 as stated: open_file is NotFound for a path that is absent from the
\* entry index or a directory there, and otherwise returns the bytes of the
\* record with that canonical path; a synthetic directory's index is never read.
C10_OpenFileBytesOrNotFound ==
  ZipCalled("open_file") =>
    IF Asked \notin DOMAIN zipfs.entries \/ zipfs.entries[Asked].is_dir
    THEN call.result = Err(NotFound) /\ ~call.deref.some
    ELSE /\ call.result.ok
         /\ \E i \in 1..Len(zipfs.buf) :
               Canon(zipfs.buf, i) = Asked /\ call.result.val = zipfs.buf[i].data

\* C10, amended: as stated, except that for a file of the index open_file
\* returns the bytes of its record or the I/O error of decoding that record,
\* never NotFound and never part of the bytes.
C10_OpenFileBytesIoOrNotFound ==
  ZipCalled("open_file") =>
    IF Asked \notin DOMAIN zipfs.entries \/ zipfs.entries[Asked].is_dir
    THEN call.result = Err(NotFound) /\ ~call.deref.some
    ELSE LET i == call.deref.val + 1
         IN  /\ call.deref.some
             /\ i \in 1..Len(zipfs.buf)
             /\ Canon(zipfs.buf, i) = Asked
             /\ IF zipfs.buf[i].sound
                THEN call.result = Ok(zipfs.buf[i].data)
                ELSE call.result = Err(Io)

\* C10 witness: open_file of a directory that only a nested file implies,
\* in an archive whose record 0 is a readable file
C10_Witness ==
  /\ ZipCalled("open_file")
  /\ Asked \in DOMAIN zipfs.entries
  /\ \A i \in 1..Len(zipfs.buf) : Canon(zipfs.buf, i) # Asked
  /\ IsFileRecord(zipfs.buf, 1) /\ zipfs.buf[1].sound
  /\ call.result = Err(NotFound)

----------------------------------------------------------------------------
(* The no-op store: src/fs/noop_fs.rs *)

NoOpFs_new ==
  [kind |-> "noop"]

\* how a call on a store ends: it returns a value, or it unwinds with a panic
Returned(v) ==
  [returned |-> TRUE, val |-> v]

\* unimplemented!(msg)
Unwind(msg) ==
  [returned |-> FALSE, panic |-> msg]

NoOpFs_read_dir(self, path) ==
  Unwind("not implemented: no-op filesystem")

NoOpFs_open_file(self, path) ==
  Unwind("not implemented: no-op filesystem")

NoOpFs_metadata(self, path) ==
  Unwind("not implemented: no-op filesystem")

NoOpFs_exists(self, path) ==
  Unwind("not implemented: no-op filesystem")

----------------------------------------------------------------------------
(* Any implementor of SimpleFs behind a &dyn SimpleFs *)

SimpleFs_read_dir(self, path) ==
  CASE self.kind = "noop" -> NoOpFs_read_dir(self, path)
    [] self.kind = "disk" -> Returned(DiskFs_read_dir(self, path))
    [] self.kind = "zip" -> Returned(ZipFs_read_dir(self, path))
    [] self.kind = "overlay" -> Returned(OverlayFs_read_dir(self, path))

SimpleFs_open_file(self, path) ==
  CASE self.kind = "noop" -> NoOpFs_open_file(self, path)
    [] self.kind = "disk" -> Returned(DiskFs_open_file(self, path))
    [] self.kind = "zip" -> Returned(ZipFs_open_file(self, path))
    [] self.kind = "overlay" -> Returned(OverlayFs_open_file(self, path))

SimpleFs_metadata(self, path) ==
  CASE self.kind = "noop" -> NoOpFs_metadata(self, path)
    [] self.kind = "disk" -> Returned(DiskFs_metadata(self, path))
    [] self.kind = "zip" -> Returned(ZipFs_metadata(self, path))
    [] self.kind = "overlay" -> Returned(OverlayFs_metadata(self, path))

SimpleFs_exists(self, path) ==
  CASE self.kind = "noop" -> NoOpFs_exists(self, path)
    [] self.kind = "disk" -> Returned(DiskFs_exists(self, path))
    [] self.kind = "zip" -> Returned(ZipFs_exists(self, path))
    [] self.kind = "overlay" -> Returned(OverlayFs_exists(self, path))

----------------------------------------------------------------------------
(* One store of any kind, called with arbitrary path strings *)

\* the characters path strings are drawn from
PathChars ==
  {"a", "/", "."}

\* longest path string drawn from PathChars
MaxPathLen ==
  4

PathStrings ==
  UNION {[1..n -> PathChars] : n \in 0..MaxPathLen}

StoreRequests ==
  PathStrings \cup OverlayRequests \cup Requests

InitStore ==
  /\ phase = "init"
  /\ zipfs = NoStore
  /\ args = NoArgs
  /\ fs = NoStore
  /\ call = NoCall
  /\ obj = NoObject

\* NoOpFs::new()
NoOpNew ==
  /\ phase = "init"
  /\ fs' = NoOpFs_new
  /\ phase' = "store"
  /\ UNCHANGED <<zipfs, args, call>>
  /\ UNCHANGED obj

\* to_vfs_layer(layer): a disk-backed or an archive-backed store, or an error
ToVfsLayer ==
  /\ phase = "init"
  /\ \E layer \in HostPaths :
        LET r == to_vfs_layer(layer)
        IN  /\ call' = Call("host", "to_vfs_layer", layer, r)
            /\ fs' = IF r.ok THEN r.val ELSE NoStore
            /\ phase' = IF r.ok THEN "store" ELSE "failed"
  /\ UNCHANGED <<zipfs, args>>
  /\ UNCHANGED obj

\* OverlayFs::from_layers(layers)
StoreFromLayers ==
  /\ phase = "init"
  /\ \E layers \in LayerLists :
        /\ args' = [kind |-> "from_layers", layers |-> layers]
        /\ fs' = OverlayFs_from_layers(layers)
  /\ phase' = "store"
  /\ UNCHANGED <<zipfs, call>>
  /\ UNCHANGED obj

\* the call returns its value to the caller, or the panic unwinds the caller;
\* a store is immutable behind &self, so one call per behaviour shows them all
Respond(op, path, out) ==
  IF out.returned
  THEN /\ call' = IF fs.kind = "disk"
                  THEN Call(fs.kind, op, path, out.val) @@ [real |-> disk_path(fs, path)]
                  ELSE Call(fs.kind, op, path, out.val)
       /\ phase' = "returned"
  ELSE /\ call' = [target |-> fs.kind, op |-> op, path |-> path, panic |-> out.panic]
       /\ phase' = "panicked"

StoreReadDir ==
  /\ phase = "store"
  /\ \E p \in StoreRequests : Respond("read_dir", p, SimpleFs_read_dir(fs, p))
  /\ UNCHANGED <<zipfs, args, fs>>
  /\ UNCHANGED obj

StoreOpenFile ==
  /\ phase = "store"
  /\ \E p \in StoreRequests : Respond("open_file", p, SimpleFs_open_file(fs, p))
  /\ UNCHANGED <<zipfs, args, fs>>
  /\ UNCHANGED obj

StoreMetadata ==
  /\ phase = "store"
  /\ \E p \in StoreRequests : Respond("metadata", p, SimpleFs_metadata(fs, p))
  /\ UNCHANGED <<zipfs, args, fs>>
  /\ UNCHANGED obj

StoreExists ==
  /\ phase = "store"
  /\ \E p \in StoreRequests : Respond("exists", p, SimpleFs_exists(fs, p))
  /\ UNCHANGED <<zipfs, args, fs>>
  /\ UNCHANGED obj

NextStore ==
  \/ NoOpNew
  \/ ToVfsLayer
  \/ StoreFromLayers
  \/ StoreReadDir
  \/ StoreOpenFile
  \/ StoreMetadata
  \/ StoreExists

SpecStore ==
  InitStore /\ [][NextStore]_vars

----------------------------------------------------------------------------
(* Properties of the stores under arbitrary paths *)

\* C11: no operation of any store panics, whatever the path string: every
\* call returns, and on the no-op store it returns a failure (an error from
\* read_dir, open_file and metadata, false from exists).
C11_NoOperationPanics ==
  /\ phase # "panicked"
  /\ (phase = "returned" /\ fs.kind = "noop")
        => IF call.op = "exists" THEN call.result = FALSE ELSE ~call.result.ok

----------------------------------------------------------------------------
(* The two path helpers on their own: normalize_path and join_path *)

\* the strings quoted in the documentation of the helpers
ExamplePaths ==
  {
    (* "a/./b/../c" *) <<"a", "/", ".", "/", "b", "/", ".", ".", "/", "c">>,
    (* "/a/b/" *) <<"/", "a", "/", "b", "/">>,
    (* "a/b" *) <<"a", "/", "b">>,
    (* "a/c" *) <<"a", "/", "c">>,
    (* "b/c" *) <<"b", "/", "c">>,
    (* "a/b/c" *) <<"a", "/", "b", "/", "c">>
  }

PathInputs ==
  PathStrings \cup ExamplePaths

\* a caller holding a path string
InitPath ==
  /\ phase = "init"
  /\ zipfs = NoStore
  /\ args \in {[kind |-> "path", path |-> p] : p \in PathInputs}
  /\ fs = NoStore
  /\ call = NoCall
  /\ obj = NoObject

\* normalize_path(path)
NormalizePath ==
  /\ phase = "init"
  /\ call' = Call("path", "normalize_path", args.path, normalize_path(args.path))
  /\ phase' = "normalized"
  /\ UNCHANGED <<zipfs, args, fs>>
  /\ UNCHANGED obj

\* normalize_path applied to what normalize_path returned
NormalizeAgain ==
  /\ phase = "normalized"
  /\ call' = Call("path", "normalize_path", call.result, normalize_path(call.result))
  /\ phase' = "renormalized"
  /\ UNCHANGED <<zipfs, args, fs>>
  /\ UNCHANGED obj

\* join_path(lhs, rhs) with the held string as lhs
JoinPath ==
  /\ phase = "init"
  /\ \E rhs \in PathInputs :
        call' = Call("path", "join_path", args.path, join_path(args.path, rhs))
                  @@ [rhs |-> rhs]
  /\ phase' = "joined"
  /\ UNCHANGED <<zipfs, args, fs>>
  /\ UNCHANGED obj

NextPath ==
  \/ NormalizePath
  \/ NormalizeAgain
  \/ JoinPath

SpecPath ==
  InitPath /\ [][NextPath]_vars

----------------------------------------------------------------------------
(* Properties of the path helpers *)

\* the segments of a string between its slashes
Segments(x) ==
  split(x, 1, <<>>)

\* canonical: the empty string (the root), or segments separated by single
\* slashes, none of them empty, "." or ".."
IsCanonical(x) ==
  \/ x = <<>>
  \/ \A i \in 1..Len(Segments(x)) :
        Segments(x)[i] \notin {<<>>, <<".">>, <<".", ".">>}

\* C12: normalize_path is idempotent: normalizing a normalized path returns
\* it unchanged.
C12_NormalizeIdempotent ==
  phase = "renormalized" => call.result = call.path

\* a path that changes under normalization has been normalized a second time
C12_Witness ==
  /\ phase = "renormalized"
  /\ args.path # call.path
  /\ call.path # <<>>
  /\ call.path = normalize_path(args.path)

\* the segments a reader who resolves "." and ".." by hand is left with:
\* the i-th raw segment stays iff it is a name and the ".." after it are
\* all used up by names that lie between it and them
Survives(segs, i) ==
  /\ segs[i] \notin {<<>>, <<".">>, <<".", ".">>}
  /\ \A j \in (i + 1)..Len(segs) :
        LET names == Cardinality({k \in (i + 1)..j :
                        segs[k] \notin {<<>>, <<".">>, <<".", ".">>}})
            ups == Cardinality({k \in (i + 1)..j : segs[k] = <<".", ".">>})
        IN  segs[j] = <<".", ".">> => ups <= names

\* the surviving segments, in their order, joined by single slashes
ResolvedByHand(path, out) ==
  LET segs == Segments(path)
      keep == {i \in 1..Len(segs) : Survives(segs, i)}
      outs == Segments(out)
  IN  IF keep = {} THEN out = <<>>
      ELSE /\ Len(outs) = Cardinality(keep)
           /\ \A i \in keep : outs[Cardinality({k \in keep : k <= i})] = segs[i]

\* C13: normalize_path returns a canonical path: no leading or trailing
\* slash, no empty, "." or ".." segment, the empty string for the root; a
\* ".." removes the last segment kept so far and is dropped when none is
\* left, so the result never climbs above the root.
C13_NormalizeCanonical ==
  call.op = "normalize_path" =>
     /\ IsCanonical(call.result)
     /\ call.result # <<>> => call.result[1] # Slash /\ call.result[Len(call.result)] # Slash
     /\ ResolvedByHand(call.path, call.result)
     /\ call.path = <<"a", "/", ".", "/", "b", "/", ".", ".", "/", "c">>
           => call.result = <<"a", "/", "c">>
     /\ call.path = <<"/", "a", "/", "b", "/">> => call.result = <<"a", "/", "b">>
     /\ call.path = <<".", ".">> => call.result = <<>>
     /\ call.path = <<>> => call.result = <<>>

\* "a/./b/../c" has been normalized to "a/c"
C13_Witness ==
  /\ phase = "normalized"
  /\ call.path = <<"a", "/", ".", "/", "b", "/", ".", ".", "/", "c">>
  /\ call.result = <<"a", "/", "c">>

\* C14: join_path returns the child when the parent is empty, the parent
\* when the child is empty, and parent + "/" + child otherwise; joining two
\* canonical paths gives a canonical path.
C14_JoinPath ==
  call.op = "join_path" =>
     LET parent == call.path
         child == call.rhs
     IN  /\ parent = <<>> => call.result = child
         /\ child = <<>> => call.result = parent
         /\ (parent # <<>> /\ child # <<>>) => call.result = parent \o <<"/">> \o child
         /\ (IsCanonical(parent) /\ IsCanonical(child)) => IsCanonical(call.result)
         /\ (parent = <<>> /\ child = <<"a", "/", "b">>) => call.result = <<"a", "/", "b">>
         /\ (parent = <<"a">> /\ child = <<>>) => call.result = <<"a">>
         /\ (parent = <<"a">> /\ child = <<"b", "/", "c">>)
               => call.result = <<"a", "/", "b", "/", "c">>

\* "a" joined with "b/c" has given "a/b/c"
C14_Witness ==
  /\ phase = "joined"
  /\ call.path = <<"a">>
  /\ call.rhs = <<"b", "/", "c">>
  /\ call.result = <<"a", "/", "b", "/", "c">>


\* C15: every path returned by read_dir(p), by any store, is canonical and
\* is join(normalize(p), name) for one non-empty segment name: never the
\* directory itself or an empty name.
C15_ReadDirReturnsChildren ==
  (call.op = "read_dir" /\ call.result.ok) =>
     \A i \in 1..Len(call.result.val) :
        LET c == call.result.val[i]
        IN  /\ normalize_path(c) = c
            /\ IsCanonical(c)
            /\ c # normalize_path(call.path)
            /\ NameOf(c) # <<>>
            /\ c = join_path(normalize_path(call.path), NameOf(c))


\* C16: to_vfs_layer yields an archive-backed store over the whole file for
\* a path with the zip extension; for any other path it yields a disk-backed
\* store exactly when the path is an existing directory, and fails when the
\* path is missing or is not a directory.
C16_LayerIsArchiveOrDirectory ==
  call.op = "to_vfs_layer" =>
     LET host == HostFs(call.path)
     IN  IF call.path.ext = "zip"
         THEN call.result.ok =>
                 /\ host.kind = "file"
                 /\ call.result.val.kind = "zip"
                 /\ call.result.val.buf = host.records
         ELSE /\ call.result.ok <=> host.kind = "dir"
              /\ call.result.ok =>
                    /\ call.result.val.kind = "disk"
                    /\ call.result.val.base = call.path

----------------------------------------------------------------------------
(* Startup step by step: Game::try_from and Game::new, src/engine/mod.rs *)

\* the paths Game::try_from resolves, in the order it resolves them: the
\* game, then the --layer arguments from the last to the first
given_layers(a) ==
  <<a.game.val>> \o Reverse(a.layers)

\* a push that leaves out a layer that does not resolve
push_if_resolved(layers, layer) ==
  LET r == to_vfs_layer(layer)
  IN  IF r.ok THEN Ok(Append(layers, r.val)) ELSE Ok(layers)

\* layers.push(to_vfs_layer(layer)?)
push_layer(layers, layer) ==
  LET r == to_vfs_layer(layer)
  IN  IF r.ok THEN Ok(Append(layers, r.val)) ELSE r

\* what try_from holds: the layers resolved so far, then the overlay, or the
\* error it returned and the path that caused it
Resolving(layers, next) ==
  [kind |-> "layers", layers |-> layers, next |-> next]

Failure(err, path) ==
  [kind |-> "error", err |-> err, path |-> path]

InitStartup ==
  /\ phase = "init"
  /\ zipfs = NoStore
  /\ args = NoArgs
  /\ fs = NoStore
  /\ call = NoCall
  /\ obj = NoObject

\* the match on args.game: exit without a game, resolve_physical_fs_path(&p)?
ResolveGamePath ==
  /\ phase = "init"
  /\ \E game \in {None} \cup {Some(h) : h \in HostPaths}, layers \in LayerArgs :
        /\ args' = TetronArgs(game, layers)
        /\ IF ~game.some
           THEN phase' = "exited" /\ fs' = fs
           ELSE LET game_path == resolve_physical_fs_path(game.val)
                IN  IF game_path.ok
                    THEN phase' = "resolving" /\ fs' = Resolving(<<>>, 1)
                    ELSE phase' = "failed" /\ fs' = Failure(game_path.err, game.val)
  /\ UNCHANGED <<zipfs, call>>
  /\ UNCHANGED obj

\* vec![to_vfs_layer(&game_path)?] and one turn of the loop over args.layers
ResolveLayer ==
  /\ phase = "resolving"
  /\ fs.next <= Len(given_layers(args))
  /\ LET layer == given_layers(args)[fs.next]
         pushed == push_layer(fs.layers, layer)
     IN  IF pushed.ok
         THEN phase' = phase /\ fs' = Resolving(pushed.val, fs.next + 1)
         ELSE phase' = "failed" /\ fs' = Failure(pushed.err, layer)
  /\ UNCHANGED <<zipfs, args, call>>
  /\ UNCHANGED obj

\* OverlayFs::from_layers(layers), after the loop
BuildOverlay ==
  /\ phase = "resolving"
  /\ fs.next > Len(given_layers(args))
  /\ fs' = OverlayFs_from_layers(fs.layers)
  /\ phase' = "built"
  /\ UNCHANGED <<zipfs, args, call>>
  /\ UNCHANGED obj

\* Game::new: fs.read_text_file("game.json")?, then the rest of the start
GameNew ==
  /\ phase = "built"
  /\ LET json == read_text_file(fs, GameJson)
     IN  /\ call' = Call("overlay", "read_text_file", GameJson, json)
         /\ \E rest_ok \in BOOLEAN :
               phase' = IF json.ok /\ rest_ok THEN "running" ELSE "failed"
  /\ UNCHANGED <<zipfs, args, fs>>
  /\ UNCHANGED obj

NextStartup ==
  \/ ResolveGamePath
  \/ ResolveLayer
  \/ BuildOverlay
  \/ GameNew

SpecStartup ==
  InitStartup /\ [][NextStartup]_vars

----------------------------------------------------------------------------
(* Properties of the startup *)

\* the first path, in resolution order, that does not resolve; 0 for none
FirstFailing(a) ==
  LET given == given_layers(a)
      bad == {i \in 1..Len(given) :
                IF i = 1 THEN ~resolve_physical_fs_path(given[i]).ok \/ ~to_vfs_layer(given[i]).ok
                ELSE ~to_vfs_layer(given[i]).ok}
  IN  IF bad = {} THEN 0 ELSE CHOOSE i \in bad : \A j \in bad : i <= j

\* every path has been resolved and the overlay holds all of the stores
CompleteStack(a, overlay) ==
  /\ FirstFailing(a) = 0
  /\ overlay.layers = Reverse([i \in 1..Len(given_layers(a)) |-> to_vfs_layer(given_layers(a)[i]).val])

\* with a game given, the state never shows an overlay or a read unless
\* every layer resolved, and a failed resolution ends in that layer's error
C17_State ==
  (args.kind = "cli" /\ args.game.some) =>
     /\ fs.kind = "overlay" => CompleteStack(args, fs)
     /\ call # NoCall => fs.kind = "overlay" /\ CompleteStack(args, fs)
     /\ FirstFailing(args) # 0 =>
           /\ fs.kind # "overlay"
           /\ call = NoCall
           /\ phase \in {"resolving", "failed"}
           /\ phase = "failed" =>
                 /\ fs.kind = "error"
                 /\ fs.path = given_layers(args)[FirstFailing(args)]
                 /\ fs.err = Io
           /\ phase = "resolving" => fs.next <= FirstFailing(args)

\* the overlay is built in a step that starts with every layer resolved, and
\* a read is made in a step that starts with the overlay built
C17_Step ==
  /\ (fs'.kind = "overlay" /\ fs.kind # "overlay")
        => /\ fs.kind = "layers"
           /\ Len(fs.layers) = 1 + Len(args.layers)
           /\ fs'.layers = Reverse(fs.layers)
  /\ call' # call => fs.kind = "overlay" /\ fs' = fs

\* C17: Game::try_from resolves every layer, the game and each --layer
\* path, before it builds the overlay and before anything is read through
\* it; when a layer does not resolve, startup fails with that error, no
\* overlay is built and nothing is ever looked up in a partial layer stack.
C17_ResolveBeforeOverlay ==
  []C17_State /\ [][C17_Step]_vars

\* a start whose second --layer argument does not resolve has failed on it
\* after the game and the last argument were resolved
C17_Witness ==
  /\ phase = "failed"
  /\ fs.kind = "error"
  /\ Len(args.layers) = 2
  /\ FirstFailing(args) = 3
  /\ call = NoCall

----------------------------------------------------------------------------
(* Properties of the text read and of the overlay's failures *)

\* the bytes are well-formed UTF-8 (the stored bytes are ASCII or 0xFF)
ValidUtf8(bytes) ==
  \A i \in 1..Len(bytes) : bytes[i] < 128

\* what each layer of the overlay answers to open_file, in lookup order
OpenAnswers ==
  [i \in 1..Len(fs.layers) |-> Layer_open_file(fs.layers[i], Asked)]

\* C18: read_text_file(p) returns Ok(s) exactly when open_file(p) returns
\* bytes that are valid UTF-8, s being their decoding; it returns ReadError
\* when open_file returned bytes that are not valid UTF-8 - on the overlay
\* the bytes of the first layer that has the file, with no retry on a lower
\* layer - and open_file's own error when open_file failed.
C18_ReadTextFile ==
  OverlayCalled("read_text_file") =>
     LET opened == OverlayFs_open_file(fs, call.path)
         hits == {i \in 1..Len(fs.layers) : OpenAnswers[i].ok}
     IN  /\ call.result.ok <=> (opened.ok /\ ValidUtf8(opened.val))
         /\ call.result.ok => call.result.val = [utf8 |-> opened.val]
         /\ (opened.ok /\ ~ValidUtf8(opened.val)) => call.result = Err("ReadError")
         /\ ~opened.ok => call.result = opened
         /\ hits # {} =>
               LET top == CHOOSE i \in hits : \A j \in hits : i <= j
               IN  /\ opened = OpenAnswers[top]
                   /\ ~ValidUtf8(OpenAnswers[top].val) => call.result = Err("ReadError")

\* the first layer's game.json is not UTF-8, a lower layer's is, and the
\* read ended in ReadError
C18_Witness ==
  /\ OverlayCalled("read_text_file")
  /\ call.result = Err("ReadError")
  /\ \E i, j \in 1..Len(fs.layers) :
        /\ i < j
        /\ OpenAnswers[i].ok /\ ~ValidUtf8(OpenAnswers[i].val)
        /\ OpenAnswers[j].ok /\ ValidUtf8(OpenAnswers[j].val)

----------------------------------------------------------------------------
(* The script source loader: src/scripting/source_loader.rs *)

\* PathBuf::pop: drop the last component; false when there is no parent
path_pop(path) ==
  IF path = <<>> THEN [popped |-> FALSE, path |-> path]
  ELSE [popped |-> TRUE, path |-> ParentOf(path)]

\* PathBuf::push / Path::join with a relative component
path_push(base, segment) ==
  IF base = <<>> THEN segment ELSE base \o <<Slash>> \o segment

\* Path::with_extension: replace what follows the last '.' of the file name,
\* or append the extension when the name has none
with_extension(base, ext) ==
  LET name == NameOf(base)
      start == Len(base) - Len(name)
      dots == {i \in 2..Len(name) : name[i] = "."}
  IN  IF name = <<>> THEN base
      ELSE IF dots = {} THEN base \o <<".">> \o ext
      ELSE LET last == CHOOSE i \in dots : \A j \in dots : j <= i
           IN  SubSeq(base, 1, start + last) \o ext

\* the loop over the components of the item: push each string component
RECURSIVE push_item(_, _, _)
push_item(base, item, i) ==
  IF i > Len(item) THEN Ok(base)
  ELSE IF item[i].some THEN push_item(path_push(base, item[i].val), item, i + 1)
  ELSE Err("Invalid module item")

\* compile::Error::msg(span, ..)
CompileError(msg, paths) ==
  [ok |-> FALSE, err |-> msg, paths |-> paths]

\* Source::new(path, src)
Source(path, src) ==
  [path |-> path, src |-> src]

\* a loader that looks for the file next to the directory first
load_file_first(self, root, item) ==
  LET base == push_item(path_pop(root).path, item, 1)
      candidate1 == path_push(base.val, <<"m", "o", "d", ".", "r", "n">>)
      candidate2 == with_extension(base.val, <<"r", "n">>)
      path == IF OverlayFs_exists(self, candidate2) THEN candidate2 ELSE candidate1
      src == read_text_file(self, path)
  IN  IF ~path_pop(root).popped THEN CompileError("Invalid module root", <<>>)
      ELSE IF ~base.ok THEN CompileError("Invalid module item", <<>>)
      ELSE IF ~OverlayFs_exists(self, candidate1) /\ ~OverlayFs_exists(self, candidate2)
           THEN CompileError("Module not found", <<candidate1, candidate2>>)
      ELSE IF ~src.ok THEN CompileError("Error reading file", <<path>>)
      ELSE Ok(Source(path, src.val))

\* SimpleFsSourceLoader::load, the loader holding the overlay
load(self, root, item) ==
  LET base == push_item(path_pop(root).path, item, 1)
      candidate1 == path_push(base.val, <<"m", "o", "d", ".", "r", "n">>)
      candidate2 == with_extension(base.val, <<"r", "n">>)
      path == IF OverlayFs_exists(self, candidate1) THEN candidate1 ELSE candidate2
      src == read_text_file(self, path)
  IN  IF ~path_pop(root).popped THEN CompileError("Invalid module root", <<>>)
      ELSE IF ~base.ok THEN CompileError("Invalid module item", <<>>)
      ELSE IF ~OverlayFs_exists(self, candidate1) /\ ~OverlayFs_exists(self, candidate2)
           THEN CompileError("Module not found", <<candidate1, candidate2>>)
      ELSE IF ~src.ok THEN CompileError("Error reading file", <<path>>)
      ELSE Ok(Source(path, src.val))

----------------------------------------------------------------------------
(* The loader over layers that hold script modules *)

\* archive lib.zip: module m as a directory and as a file, module n as a file
LibZip ==
  << Record(<<"m", "/", "m", "o", "d", ".", "r", "n">>, <<1>>, TRUE),
     Record(<<"m", ".", "r", "n">>, <<2>>, TRUE),
     Record(<<"n", ".", "r", "n">>, <<3>>, TRUE) >>

\* archive mod.zip: module m as a file, a module n whose mod.rn is not UTF-8
ModZip ==
  << Record(<<"m", ".", "r", "n">>, <<4>>, TRUE),
     Record(<<"n", "/", "m", "o", "d", ".", "r", "n">>, <<BadByte>>, TRUE),
     Record(<<"m", "/", "n", ".", "r", "n">>, <<5>>, TRUE) >>

\* archive dir.zip: a directory called n/mod.rn, module n as a file
DirZip ==
  << Record(<<"n", "/", "m", "o", "d", ".", "r", "n", "/">>, <<>>, TRUE),
     Record(<<"n", ".", "r", "n">>, <<6>>, TRUE),
     Record(<<"m", "/", "n", "/", "m", "o", "d", ".", "r", "n">>, <<7>>, TRUE) >>

ModuleStores ==
  {ZipFs_new(LibZip), ZipFs_new(ModZip), ZipFs_new(DirZip)}

\* the root source files the compiler loads modules for
Roots ==
  {
    (* "" *) <<>>,
    (* "m.rn" *) <<"m", ".", "r", "n">>,
    (* "m/m.rn" *) <<"m", "/", "m", ".", "r", "n">>
  }

\* the items asked for: components that are strings, or are not (None)
Items ==
  {
    (* m *) <<Some(<<"m">>)>>,
    (* n *) <<Some(<<"n">>)>>,
    (* x *) <<Some(<<"x">>)>>,
    (* m::n *) <<Some(<<"m">>), Some(<<"n">>)>>,
    (* m::{id} *) <<Some(<<"m">>), None>>
  }

InitLoader ==
  /\ phase = "init"
  /\ zipfs = NoStore
  /\ args = NoArgs
  /\ fs = NoStore
  /\ call = NoCall
  /\ obj = NoObject

\* SimpleFsSourceLoader::new(fs) with the overlay of the layers
LoaderNew ==
  /\ phase = "init"
  /\ \E layers \in UNION {[1..n -> ModuleStores] : n \in 0..MaxLayers} :
        /\ args' = [kind |-> "from_layers", layers |-> layers]
        /\ fs' = OverlayFs_from_layers(layers)
  /\ phase' = "loader"
  /\ UNCHANGED <<zipfs, call>>
  /\ UNCHANGED obj

\* load(root, item, span)
Load ==
  /\ phase = "loader"
  /\ \E root \in Roots, item \in Items :
        call' = Call("loader", "load", item, load(fs, root, item)) @@ [root |-> root]
  /\ UNCHANGED <<phase, zipfs, args, fs>>
  /\ UNCHANGED obj

NextLoader ==
  \/ LoaderNew
  \/ Load

SpecLoader ==
  InitLoader /\ [][NextLoader]_vars

----------------------------------------------------------------------------
(* Properties of the source loader *)

\* the item is made of names and the root has a directory to start from
Loadable ==
  /\ phase = "loader"
  /\ call.op = "load"
  /\ call.root # <<>>
  /\ \A i \in 1..Len(call.path) : call.path[i].some

\* the logical base path P of the item: the directory of the root source
\* followed by the names of the item
RECURSIVE BasePath(_, _)
BasePath(dir, names) ==
  IF names = <<>> THEN dir
  ELSE BasePath(IF dir = <<>> THEN names[1].val ELSE dir \o <<"/">> \o names[1].val,
                Tail(names))

P_ModRn ==
  BasePath(ParentOf(call.root), call.path) \o <<"/", "m", "o", "d", ".", "r", "n">>

P_Rn ==
  BasePath(ParentOf(call.root), call.path) \o <<".", "r", "n">>

\* what load answers once it has chosen the path: the text of that path as
\* read_text_file returns it, or the failure of that read
LoadedFrom(path) ==
  LET text == read_text_file(fs, path)
  IN  IF text.ok THEN call.result = Ok(Source(path, text.val))
      ELSE /\ ~call.result.ok
           /\ call.result.err = "Error reading file"
           /\ call.result.paths = <<path>>

\* C19: for an item with base path P, load takes P/mod.rn when it exists,
\* otherwise P.rn when that exists, otherwise fails with "Module not found";
\* P/mod.rn is taken when both exist, and the source returned is the text
\* read_text_file gives for the path taken.
C19_LoadPrefersModRn ==
  Loadable =>
     IF OverlayFs_exists(fs, P_ModRn) THEN LoadedFrom(P_ModRn)
     ELSE IF OverlayFs_exists(fs, P_Rn) THEN LoadedFrom(P_Rn)
     ELSE ~call.result.ok /\ call.result.err = "Module not found"

\* both m/mod.rn and m.rn exist and the source returned is that of m/mod.rn
C19_Witness ==
  /\ Loadable
  /\ OverlayFs_exists(fs, P_ModRn)
  /\ OverlayFs_exists(fs, P_Rn)
  /\ call.result.ok
  /\ call.result.val.path = P_ModRn
  /\ read_text_file(fs, P_Rn).ok
  /\ read_text_file(fs, P_Rn).val # call.result.val.src


\* what each layer of the overlay answers to the operation of the last call
LayerAnswers ==
  [i \in 1..Len(fs.layers) |-> LayerAnswer(fs.layers[i])]

\* C20: open_file and metadata of the overlay fail exactly when every layer
\* fails for the normalized path, and the error is then NotFound whichever
\* errors, NotFound or IoError, the layers reported.
C20_FailsIffAllLayersFail ==
  (OverlayCalled("open_file") \/ OverlayCalled("metadata")) =>
     /\ ~call.result.ok <=> \A i \in 1..Len(fs.layers) : ~LayerAnswers[i].ok
     /\ ~call.result.ok => call.result = Err(NotFound)
     /\ call.result.ok => \E i \in 1..Len(fs.layers) : call.result = LayerAnswers[i]

\* the overlay answered NotFound although its layers reported an I/O error
\* and a NotFound
C20_Witness ==
  /\ OverlayCalled("open_file")
  /\ call.result = Err(NotFound)
  /\ \E i, j \in 1..Len(fs.layers) :
        /\ LayerAnswers[i] = Err(Io)
        /\ LayerAnswers[j] = Err(NotFound)

----------------------------------------------------------------------------
(* Threads reading one archive-backed store: src/fs/zip_fs.rs, &self *)

\* most threads that share the store
MaxThreads ==
  2

Threads ==
  1..MaxThreads

\* a ZipArchive<Cursor<&[u8]>>: the record it stands on and how far it read
Reader(index, pos) ==
  [index |-> index, pos |-> pos]

\* no reader: dropped at the end of open_file, or not made yet
NoReader ==
  Reader(-1, 0)

\* one reader kept in the store and used by every call
shared_archive(self, t) ==
  0

\* open_archive(&self): a new reader over &self.buf for this call; the
\* result names the reader, which lives on the stack of the calling thread
open_archive(self, t) ==
  t

\* archives the threads share: files of one and of two bytes, with and
\* without a root prefix
ThreadArchives ==
  { << Record(<<"x">>, <<3>>, TRUE),
       Record(<<"a", "/", "b">>, <<4>>, TRUE),
       Record(<<"g", "/", "x">>, <<2, 2>>, FALSE) >>,
    << Record(<<"g", "/", "x">>, <<2, 2>>, TRUE),
       Record(<<"g", "/", "a">>, <<6>>, TRUE) >> }

ThreadRequests ==
  {
    (* "" *) <<>>,
    (* "x" *) <<"x">>,
    (* "a" *) <<"a">>,
    (* "a/b" *) <<"a", "/", "b">>,
    (* "g/x" *) <<"g", "/", "x">>
  }

InitThreads ==
  /\ phase = "init"
  /\ zipfs = NoStore
  /\ args = NoArgs
  /\ fs = NoStore
  /\ call = NoCall
  /\ obj = NoObject

\* ZipFs::new(buf), the store then shared by reference between the threads
ThreadsNew ==
  /\ phase = "init"
  /\ \E buf \in ThreadArchives : zipfs' = ZipFs_new(buf)
  /\ obj' = [kind |-> "threads",
             calls |-> [t \in Threads |-> [pc |-> "idle"]],
             readers |-> [k \in 0..MaxThreads |-> NoReader]]
  /\ phase' = "shared"
  /\ UNCHANGED <<args, fs, call>>

CanCall(t) ==
  phase = "shared" /\ obj.calls[t].pc \in {"idle", "done"}

Done(op, path, result) ==
  [pc |-> "done", op |-> op, path |-> path, result |-> result]

\* read_dir, metadata and exists only look into the two maps
ThreadReadDir ==
  /\ \E t \in Threads, p \in ThreadRequests :
        /\ CanCall(t)
        /\ obj' = [obj EXCEPT !.calls[t] = Done("read_dir", p, ZipFs_read_dir(zipfs, p))]
  /\ UNCHANGED <<phase, zipfs, args, fs, call>>

ThreadMetadata ==
  /\ \E t \in Threads, p \in ThreadRequests :
        /\ CanCall(t)
        /\ obj' = [obj EXCEPT !.calls[t] = Done("metadata", p, ZipFs_metadata(zipfs, p))]
  /\ UNCHANGED <<phase, zipfs, args, fs, call>>

ThreadExists ==
  /\ \E t \in Threads, p \in ThreadRequests :
        /\ CanCall(t)
        /\ obj' = [obj EXCEPT !.calls[t] = Done("exists", p, ZipFs_exists(zipfs, p))]
  /\ UNCHANGED <<phase, zipfs, args, fs, call>>

\* open_file up to open_archive: the lookup in entries, then a reader
ThreadOpenFile ==
  /\ \E t \in Threads, p \in ThreadRequests :
        /\ CanCall(t)
        /\ LET zip_entry == file_index(zipfs, p)
               key == open_archive(zipfs, t)
           IN  IF zip_entry.some
               THEN obj' = [obj EXCEPT
                              !.calls[t] = [pc |-> "opened", op |-> "open_file", path |-> p,
                                            key |-> key, index |-> zip_entry.val],
                              !.readers[key] = NoReader]
               ELSE obj' = [obj EXCEPT !.calls[t] = Done("open_file", p, Err(NotFound))]
  /\ UNCHANGED <<phase, zipfs, args, fs, call>>

\* archive.by_index(zip_entry.index): the reader moves to the record
ThreadByIndex ==
  /\ \E t \in Threads :
        /\ phase = "shared"
        /\ obj.calls[t].pc = "opened"
        /\ obj' = [obj EXCEPT
                     !.calls[t] = [pc |-> "reading", op |-> "open_file",
                                   path |-> obj.calls[t].path, key |-> obj.calls[t].key,
                                   buf |-> <<>>],
                     !.readers[obj.calls[t].key] = Reader(obj.calls[t].index, 0)]
  /\ UNCHANGED <<phase, zipfs, args, fs, call>>

\* file.read_to_end(&mut buf): one byte from where the reader stands, or the
\* end of the record, where the reader is dropped and open_file returns
ThreadRead ==
  /\ \E t \in Threads :
        /\ phase = "shared"
        /\ obj.calls[t].pc = "reading"
        /\ LET c == obj.calls[t]
               r == obj.readers[c.key]
               record == zipfs.buf[r.index + 1]
           IN  IF r.index < 0
               THEN obj' = [obj EXCEPT !.calls[t] = Done("open_file", c.path, Err(Io))]
               ELSE IF r.pos < Len(record.data)
               THEN obj' = [obj EXCEPT
                              !.calls[t].buf = Append(c.buf, record.data[r.pos + 1]),
                              !.readers[c.key] = Reader(r.index, r.pos + 1)]
               ELSE obj' = [obj EXCEPT
                              !.calls[t] = Done("open_file", c.path,
                                                IF record.sound THEN Ok(c.buf) ELSE Err(Io)),
                              !.readers[c.key] = NoReader]
  /\ UNCHANGED <<phase, zipfs, args, fs, call>>

NextThreads ==
  \/ ThreadsNew
  \/ ThreadReadDir
  \/ ThreadMetadata
  \/ ThreadExists
  \/ ThreadOpenFile
  \/ ThreadByIndex
  \/ ThreadRead

SpecThreads ==
  InitThreads /\ [][NextThreads]_vars

----------------------------------------------------------------------------
(* Properties of concurrent reads *)

\* every finished call has the result of the same call made alone
C21_State ==
  phase = "shared" =>
     \A t \in Threads :
        LET c == obj.calls[t]
        IN  c.pc = "done" =>
               /\ c.op = "open_file" => c.result = ZipFs_open_file(zipfs, c.path)
               /\ c.op = "read_dir" => c.result = ZipFs_read_dir(zipfs, c.path)
               /\ c.op = "metadata" => c.result = ZipFs_metadata(zipfs, c.path)
               /\ c.op = "exists" => c.result = ZipFs_exists(zipfs, c.path)

\* no step of a call writes the buffer, the entry index or the directory map
C21_Step ==
  phase = "shared" => zipfs' = zipfs /\ fs' = fs

\* C21: reads on an archive-backed store need no exclusive access: under
\* every interleaving of open_file, read_dir, metadata and exists calls of
\* several threads, each open_file with its own reader over the shared
\* buffer, every call returns what it returns when run alone, and no call
\* changes the buffer, the entry index or the directory map.
C21_ConcurrentReads ==
  []C21_State /\ [][C21_Step]_vars

\* one thread has finished reading a file while another thread is in the
\* middle of reading a different one
C21_Witness ==
  /\ phase = "shared"
  /\ \E t, u \in Threads :
        /\ obj.calls[t].pc = "done"
        /\ obj.calls[t].op = "open_file"
        /\ obj.calls[t].result.ok
        /\ obj.calls[u].pc = "reading"
        /\ obj.calls[u].path # obj.calls[t].path
        /\ obj.readers[obj.calls[u].key].pos > 0

----------------------------------------------------------------------------
(* Keyboard state and the run loop: src/engine/input.rs, Game::run *)

\* most events polled in one frame
MaxEvents ==
  2

\* the scancodes that have a name
Keys ==
  {"A", "B"}

KeyDown(scancode, repeat) ==
  [type |-> "KeyDown", scancode |-> scancode, repeat |-> repeat]

KeyUp(scancode) ==
  [type |-> "KeyUp", scancode |-> scancode, repeat |-> FALSE]

\* any other event, Quit included
OtherEvent(type) ==
  [type |-> type, scancode |-> None, repeat |-> FALSE]

Events ==
  {KeyDown(Some(k), r) : k \in Keys, r \in BOOLEAN}
     \cup {KeyUp(Some(k)) : k \in Keys}
     \cup {KeyDown(None, FALSE), KeyUp(None), OtherEvent("MouseMotion"), OtherEvent("Quit")}

\* KeyState::new()
KeyState_new ==
  [down |-> {}, released |-> {}, pressed |-> {}, held |-> {}]

\* an update that takes a repeated KeyDown for a press
update_with_repeats(self, event) ==
  IF event.type = "KeyDown" /\ event.scancode.some
  THEN [self EXCEPT !.down = @ \cup {event.scancode.val},
                    !.pressed = @ \cup {event.scancode.val},
                    !.held = @ \cup {event.scancode.val}]
  ELSE IF event.type = "KeyUp" /\ event.scancode.some
  THEN [self EXCEPT !.down = @ \ {event.scancode.val},
                    !.released = @ \cup {event.scancode.val},
                    !.held = @ \ {event.scancode.val}]
  ELSE self

\* KeyState::update(&mut self, event)
KeyState_update(self, event) ==
  IF event.type = "KeyDown" /\ event.scancode.some /\ ~event.repeat
  THEN [self EXCEPT !.down = @ \cup {event.scancode.val},
                    !.pressed = @ \cup {event.scancode.val},
                    !.held = @ \cup {event.scancode.val}]
  ELSE IF event.type = "KeyUp" /\ event.scancode.some
  THEN [self EXCEPT !.down = @ \ {event.scancode.val},
                    !.released = @ \cup {event.scancode.val},
                    !.held = @ \ {event.scancode.val}]
  ELSE self

\* KeyState::next_frame(&mut self)
KeyState_next_frame(self) ==
  [self EXCEPT !.pressed = {}, !.released = {}]

\* Scancode::from_name(name).is_some_and(|v| set.contains(&v))
check_set(name, set) ==
  name \in Keys /\ name \in set

is_down(self, name) ==
  check_set(name, self.down)

just_released(self, name) ==
  check_set(name, self.released)

just_pressed(self, name) ==
  check_set(name, self.pressed)

is_held(self, name) ==
  check_set(name, self.held)

InitInput ==
  /\ phase = "init"
  /\ zipfs = NoStore
  /\ args = NoArgs
  /\ fs = NoStore
  /\ call = NoCall
  /\ obj = NoObject

\* Game::new makes the key state; Game::run enters its loop.  polled is the
\* list of the events poll_iter has handed out in the current frame
RunBegin ==
  /\ phase = "init"
  /\ obj' = [kind |-> "input", keys |-> KeyState_new, polled |-> <<>>]
  /\ phase' = "frame"
  /\ UNCHANGED <<zipfs, args, fs, call>>

\* top of the loop: self.input.write()?.next_frame()
NextFrame ==
  /\ phase \in {"frame", "update"}
  /\ obj' = [obj EXCEPT !.keys = KeyState_next_frame(obj.keys), !.polled = <<>>]
  /\ phase' = "polling"
  /\ UNCHANGED <<zipfs, args, fs, call>>

\* one turn of for event in poll_iter(): update(&event), break on Quit
PollEvent ==
  /\ phase = "polling"
  /\ Len(obj.polled) < MaxEvents
  /\ \E event \in Events :
        /\ obj' = [obj EXCEPT !.keys = KeyState_update(obj.keys, event),
                              !.polled = Append(obj.polled, event)]
        /\ phase' = IF event.type = "Quit" THEN "quit" ELSE phase
  /\ UNCHANGED <<zipfs, args, fs, call>>

\* poll_iter is exhausted: self.update(delta), where scripts query the keys
FrameUpdate ==
  /\ phase = "polling"
  /\ phase' = "update"
  /\ UNCHANGED <<zipfs, args, fs, call, obj>>

NextInput ==
  \/ RunBegin
  \/ NextFrame
  \/ PollEvent
  \/ FrameUpdate

SpecInput ==
  InitInput /\ [][NextInput]_vars

----------------------------------------------------------------------------
(* Properties of the keyboard state *)

KeyNames ==
  Keys \cup {"?"}

\* C23: is_held(k) is true only for a key that is kept down and was not
\* freshly pressed: is_held(k) and just_pressed(k) are never both true.
C23_HeldNotJustPressed ==
  obj.kind = "input" =>
     \A k \in KeyNames :
        /\ is_held(obj.keys, k) => is_down(obj.keys, k)
        /\ ~(is_held(obj.keys, k) /\ just_pressed(obj.keys, k))

\* during update, the keys just pressed and just released are those with a
\* press or a release among the events polled in this frame
C24_State ==
  phase = "update" =>
     \A k \in KeyNames :
        /\ just_pressed(obj.keys, k)
              <=> \E i \in 1..Len(obj.polled) : obj.polled[i] = KeyDown(Some(k), FALSE)
        /\ just_released(obj.keys, k)
              <=> \E i \in 1..Len(obj.polled) : obj.polled[i] = KeyUp(Some(k))

\* next_frame comes first in a frame, clears the two sets and keeps the keys
\* that are down; polling a repeated KeyDown changes no set
C24_Step ==
  /\ (phase' = "polling" /\ phase # "polling") =>
        /\ obj'.keys.pressed = {} /\ obj'.keys.released = {}
        /\ obj'.keys.down = obj.keys.down
        /\ obj'.polled = <<>>
  /\ (phase = "polling" /\ Len(obj'.polled) > Len(obj.polled)
        /\ obj'.polled[Len(obj'.polled)].type = "KeyDown"
        /\ obj'.polled[Len(obj'.polled)].repeat) => obj'.keys = obj.keys
  /\ phase' = "update" => phase = "polling"

\* C24: during a frame's update just_pressed(k) (just_released(k)) is true
\* iff a KeyDown without repeat (a KeyUp) for k was polled in that frame:
\* the loop calls next_frame before it polls, next_frame clears both sets
\* for every key and leaves is_down as it is, and a KeyDown with repeat
\* changes nothing.
C24_JustPressedThisFrame ==
  []C24_State /\ [][C24_Step]_vars

\* a key that went down in an earlier frame and is still down: in this
\* frame only its repeat was polled, and it is not just pressed
C24_Witness ==
  /\ phase = "update"
  /\ obj.polled = <<KeyDown(Some("A"), TRUE)>>
  /\ is_down(obj.keys, "A")
  /\ ~just_pressed(obj.keys, "A")

----------------------------------------------------------------------------
(* Properties of the disk-backed store *)

\* C22: for every path string, with "..", ".", repeated or leading "/", the
\* path a DiskFs operation hands to the operating system is the base joined
\* with a canonical relative path, without ".." segment and without leading
\* "/": no operation addresses a location outside the base directory.
C22_DiskPathStaysUnderBase ==
  (phase = "returned" /\ call.target = "disk") =>
     /\ call.real.base = fs.base
     /\ IsCanonical(call.real.rel)
     /\ \A i \in 1..Len(Segments(call.real.rel)) : Segments(call.real.rel)[i] # <<".", ".">>
     /\ call.real.rel # <<>> => call.real.rel[1] # Slash

\* a path that climbs with ".." was looked up under the base as a plain
\* relative path
C22_Witness ==
  /\ phase = "returned"
  /\ call.target = "disk"
  /\ call.path = <<".", ".", "/", "a">>
  /\ call.real = [base |-> fs.base, rel |-> <<"a">>]

----------------------------------------------------------------------------
(* Typed values and schemas (utils/typed_value) *)

MaxFields == 2

MaxItems == 2

TypedValue_String(s) ==
  [type |-> "String", str |-> s]

TypedValue_Number(x) ==
  [type |-> "Number", num |-> x]

TypedValue_Bool(b) ==
  [type |-> "Bool", bool |-> b]

TypedValue_Array(items) ==
  [type |-> "Array", items |-> items]

TypedValue_Object(map) ==
  [type |-> "Object", map |-> map]

Schema_null ==
  [kind |-> "Null"]

Schema_bool ==
  [kind |-> "Bool"]

Schema_number ==
  [kind |-> "Number"]

Schema_string ==
  [kind |-> "String"]

Schema_array(item) ==
  [kind |-> "Array", item |-> item, min |-> None, max |-> None]

\* only an array schema takes the bound, any other schema is returned as is
Schema_min(self, n) ==
  IF self.kind = "Array" THEN [self EXCEPT !.min = Some(n)] ELSE self

Schema_max(self, n) ==
  IF self.kind = "Array" THEN [self EXCEPT !.max = Some(n)] ELSE self

Schema_optional(self) ==
  [kind |-> "Optional", sub |-> self]

Schema_default(self, default) ==
  [kind |-> "Default", schema |-> self, default |-> default]

SchemaField(schema, optional, default) ==
  [schema |-> schema, optional |-> optional, default |-> default]

\* SchemaError
TypeMismatch(expected, found) ==
  [kind |-> "TypeMismatch", expected |-> expected, found |-> found]

MissingField(key) ==
  [kind |-> "MissingField", key |-> key]

ArrayMinViolation(min, found) ==
  [kind |-> "ArrayMinViolation", min |-> min, found |-> found]

ArrayMaxViolation(max, found) ==
  [kind |-> "ArrayMaxViolation", max |-> max, found |-> found]

\* the order in which a HashMap hands out its keys: order lists every key
\* name, and differs from one run of the program to the next
iteration(fields, order) ==
  SelectSeq(order, LAMBDA k : k \in DOMAIN fields)

\* an object schema that takes every field as optional
RECURSIVE validate(_, _, _)
RECURSIVE validate_items(_, _, _, _)
RECURSIVE validate_fields(_, _, _, _, _)
validate_all_optional(self, value, order) ==
  validate_fields([k \in DOMAIN self.fields |-> [self.fields[k] EXCEPT !.optional = TRUE]],
                  value.map, iteration(self.fields, order), EmptyMap, order)

\* an array schema that looks at the upper bound before the lower one
validate_max_first(self, value, order) ==
  IF self.max.some /\ Len(value.items) > self.max.val
  THEN Err(ArrayMaxViolation(self.max.val, Len(value.items)))
  ELSE IF self.min.some /\ Len(value.items) < self.min.val
  THEN Err(ArrayMinViolation(self.min.val, Len(value.items)))
  ELSE validate_items(self.item, value.items, <<>>, order)

\* the Array arm of Schema::validate
validate_array(self, value, order) ==
  IF self.min.some /\ Len(value.items) < self.min.val
  THEN Err(ArrayMinViolation(self.min.val, Len(value.items)))
  ELSE IF self.max.some /\ Len(value.items) > self.max.val
  THEN Err(ArrayMaxViolation(self.max.val, Len(value.items)))
  ELSE validate_items(self.item, value.items, <<>>, order)

\* the Object arm of Schema::validate
validate_object(self, value, order) ==
  validate_fields(self.fields, value.map, iteration(self.fields, order), EmptyMap, order)

\* Schema::validate; order is the iteration order of the hash maps
validate(self, value, order) ==
  CASE self.kind = "String" /\ value.type = "String" -> Ok(value)
    [] self.kind = "Number" /\ value.type = "Number" -> Ok(value)
    [] self.kind = "Bool" /\ value.type = "Bool" -> Ok(value)
    [] self.kind = "Null" /\ value.type = "Array" ->
         Err(TypeMismatch([name |-> "Null"], [name |-> "Array"]))
    [] self.kind = "Array" /\ value.type = "Array" -> validate_array(self, value, order)
    [] self.kind = "Object" /\ value.type = "Object" -> validate_object(self, value, order)
    [] self.kind = "Optional" -> validate(self.sub, value, order)
    [] self.kind = "Default" ->
         LET valid == validate(self.schema, value, order)
         IN  IF valid.ok THEN valid ELSE Ok(self.default)
    [] OTHER -> Err(TypeMismatch(self, value))

\* for item_val in items { validated.push(item.validate(item_val)?) }
validate_items(item, items, validated, order) ==
  IF Len(validated) = Len(items) THEN Ok(TypedValue_Array(validated))
  ELSE LET r == validate(item, items[Len(validated) + 1], order)
       IN  IF r.ok THEN validate_items(item, items, Append(validated, r.val), order)
           ELSE r

\* for (key, field_schema) in fields { match obj.get(key) ... }
validate_fields(fields, input, keys, out, order) ==
  IF keys = <<>> THEN Ok(TypedValue_Object(out))
  ELSE LET key == Head(keys)
           field_schema == fields[key]
       IN  IF key \in DOMAIN input
           THEN LET r == validate(field_schema.schema, input[key], order)
                IN  IF r.ok
                    THEN validate_fields(fields, input, Tail(keys), Put(out, key, r.val), order)
                    ELSE r
           ELSE IF field_schema.optional
           THEN IF field_schema.default.some
                THEN validate_fields(fields, input, Tail(keys),
                                     Put(out, key, field_schema.default.val), order)
                ELSE validate_fields(fields, input, Tail(keys), out, order)
           ELSE Err(MissingField(key))

\* Schema::object
ObjectBuilder_new ==
  [fields |-> <<>>]

ObjectBuilder_field(self, name, schema) ==
  [fields |-> Append(self.fields, <<name, SchemaField(schema, FALSE, None)>>)]

ObjectBuilder_optional_field(self, name, schema, default) ==
  [fields |-> Append(self.fields, <<name, SchemaField(schema, TRUE, default)>>)]

\* collecting the pairs into a HashMap keeps the last field of each name
RECURSIVE collect(_, _)
collect(pairs, map) ==
  IF pairs = <<>> THEN map
  ELSE collect(Tail(pairs), Put(map, pairs[1][1], pairs[1][2]))

ObjectBuilder_build(self) ==
  [kind |-> "Object", fields |-> collect(self.fields, EmptyMap)]

(* Schemas are built, then a value is validated *)

FieldNames ==
  {"n", "msg"}

HashOrders ==
  {<<"n", "msg">>, <<"msg", "n">>}

FieldSchemas ==
  {Schema_number, Schema_string, Schema_default(Schema_number, TypedValue_Number(7))}

FieldDefaults ==
  {None, Some(TypedValue_String(<<"o", "k">>))}

ItemSchemas ==
  {Schema_number, Schema_optional(Schema_number)}

FieldValues ==
  {TypedValue_Number(42), TypedValue_String(<<"b", "a", "d">>)}

ObjectValues ==
  {TypedValue_Object(m) : m \in UNION {[D -> FieldValues] : D \in SUBSET FieldNames}}

ArrayItems ==
  {TypedValue_Number(1), TypedValue_String(<<"b", "a", "d">>)}

ArrayValues ==
  {TypedValue_Array(q) : q \in UNION {[1..n -> ArrayItems] : n \in 0..(MaxItems + 1)}}

SchemaValues ==
  ObjectValues \cup ArrayValues \cup FieldValues \cup {TypedValue_Bool(TRUE)}

InitSchema ==
  /\ phase = "schema"
  /\ zipfs = NoStore
  /\ args = NoArgs
  /\ fs = NoStore
  /\ call = NoCall
  /\ obj = NoObject

\* Schema::object()
SchemaObject ==
  /\ phase = "schema"
  /\ obj' = [kind |-> "builder", builder |-> ObjectBuilder_new]
  /\ phase' = "builder"
  /\ UNCHANGED <<zipfs, args, fs, call>>

\* .field(name, schema)
BuilderField ==
  /\ phase = "builder"
  /\ Len(obj.builder.fields) < MaxFields
  /\ \E name \in FieldNames, schema \in FieldSchemas :
        obj' = [obj EXCEPT !.builder = ObjectBuilder_field(@, name, schema)]
  /\ UNCHANGED <<phase, zipfs, args, fs, call>>

\* .optional_field(name, schema, default)
BuilderOptionalField ==
  /\ phase = "builder"
  /\ Len(obj.builder.fields) < MaxFields
  /\ \E name \in FieldNames, schema \in FieldSchemas, default \in FieldDefaults :
        obj' = [obj EXCEPT !.builder = ObjectBuilder_optional_field(@, name, schema, default)]
  /\ UNCHANGED <<phase, zipfs, args, fs, call>>

\* .build()
BuilderBuild ==
  /\ phase = "builder"
  /\ obj' = [kind |-> "schema", schema |-> ObjectBuilder_build(obj.builder)]
  /\ phase' = "built"
  /\ UNCHANGED <<zipfs, args, fs, call>>

\* one of the primitive builders, or Schema::array(item)
SchemaNew ==
  /\ phase = "schema"
  /\ \E schema \in {Schema_null, Schema_bool, Schema_number, Schema_string}
                     \cup {Schema_array(item) : item \in ItemSchemas} :
        obj' = [kind |-> "schema", schema |-> schema]
  /\ phase' = "built"
  /\ UNCHANGED <<zipfs, args, fs, call>>

\* .min(n)
SchemaMin ==
  /\ phase = "built"
  /\ \E n \in 0..MaxItems :
        obj' = [obj EXCEPT !.schema = Schema_min(@, n)]
  /\ UNCHANGED <<phase, zipfs, args, fs, call>>

\* .max(n)
SchemaMax ==
  /\ phase = "built"
  /\ \E n \in 0..MaxItems :
        obj' = [obj EXCEPT !.schema = Schema_max(@, n)]
  /\ UNCHANGED <<phase, zipfs, args, fs, call>>

\* schema.validate(&value)
SchemaValidate ==
  /\ phase = "built"
  /\ \E value \in SchemaValues, order \in HashOrders :
        call' = [op |-> "validate", value |-> value, order |-> order,
                 result |-> validate(obj.schema, value, order)]
  /\ phase' = "validated"
  /\ UNCHANGED <<zipfs, args, fs, obj>>

NextSchema ==
  \/ SchemaObject
  \/ BuilderField
  \/ BuilderOptionalField
  \/ BuilderBuild
  \/ SchemaNew
  \/ SchemaMin
  \/ SchemaMax
  \/ SchemaValidate

SpecSchema ==
  InitSchema /\ [][NextSchema]_vars

----------------------------------------------------------------------------
(* Properties of Schema::validate *)

\* an object value has been validated against an object schema
ObjectValidated ==
  /\ phase = "validated"
  /\ obj.schema.kind = "Object"
  /\ call.value.type = "Object"

\* the declared fields the input has, with the outcome of their validation
PresentFields ==
  DOMAIN obj.schema.fields \cap DOMAIN call.value.map

FieldResult(k) ==
  validate(obj.schema.fields[k].schema, call.value.map[k], call.order)

\* the required fields the input lacks
MissingFields ==
  {k \in DOMAIN obj.schema.fields \ DOMAIN call.value.map :
      ~obj.schema.fields[k].optional}

\* the returned object holds the validated value of every declared field the
\* input has and the default of every optional field it lacks, and no other
\* declared field; validation succeeds when no required field is missing and
\* every field the input has validates
ObjectHoldsFields ==
  /\ call.result.ok =>
       /\ call.result.val.type = "Object"
       /\ \A k \in DOMAIN obj.schema.fields :
            LET field == obj.schema.fields[k]
                out == call.result.val.map
            IN  /\ k \in DOMAIN call.value.map =>
                     k \in DOMAIN out /\ FieldResult(k) = Ok(out[k])
                /\ (k \notin DOMAIN call.value.map /\ field.optional /\ field.default.some) =>
                     k \in DOMAIN out /\ out[k] = field.default.val
                /\ (k \notin DOMAIN call.value.map /\ field.optional /\ ~field.default.some) =>
                     k \notin DOMAIN out
  /\ (MissingFields = {} /\ \A k \in PresentFields : FieldResult(k).ok) => call.result.ok

\* C25: validate of an object against an object schema returns an object
\* with, for every declared field, the validated input value when the input
\* has it and the default when it lacks it and the field is optional with a
\* default; a missing optional field without default is omitted; a missing
\* required field makes validate fail with MissingField.
C25_ValidateObject ==
  ObjectValidated =>
     /\ ObjectHoldsFields
     /\ MissingFields # {} =>
          ~call.result.ok /\ call.result.err.kind = "MissingField"

\* C25, amended: as above, but a missing required field makes validate fail
\* with the error of the first field in the iteration order of the hash map
\* that fails: MissingField of a missing required field, or the error of a
\* field the input has and that does not validate.  It is MissingField when
\* every field the input has validates.
C25_ValidateObjectFirstError ==
  ObjectValidated =>
     /\ ObjectHoldsFields
     /\ MissingFields # {} =>
          /\ ~call.result.ok
          /\ \/ \E k \in MissingFields : call.result.err = MissingField(k)
             \/ \E k \in PresentFields : ~FieldResult(k).ok /\ call.result = FieldResult(k)
          /\ (\A k \in PresentFields : FieldResult(k).ok) =>
               call.result.err.kind = "MissingField"

\* the object of test_object_builder_and_validate: n is there, msg gets its
\* default
C25_Witness ==
  /\ ObjectValidated
  /\ obj.schema.fields = [n |-> SchemaField(Schema_number, FALSE, None),
                          msg |-> SchemaField(Schema_string, TRUE,
                                              Some(TypedValue_String(<<"o", "k">>)))]
  /\ call.value = TypedValue_Object([n |-> TypedValue_Number(42)])
  /\ call.result = Ok(TypedValue_Object([n |-> TypedValue_Number(42),
                                         msg |-> TypedValue_String(<<"o", "k">>)]))


\* an array value has been validated against an array schema
ArrayValidated ==
  /\ phase = "validated"
  /\ obj.schema.kind = "Array"
  /\ call.value.type = "Array"

BelowMin ==
  obj.schema.min.some /\ Len(call.value.items) < obj.schema.min.val

AboveMax ==
  obj.schema.max.some /\ Len(call.value.items) > obj.schema.max.val

\* validation succeeds iff the length is within the bounds that are set and
\* every item validates against the item schema
ArrayOkIffWithinBounds ==
  call.result.ok <=>
     /\ ~BelowMin
     /\ ~AboveMax
     /\ \A i \in 1..Len(call.value.items) :
           validate(obj.schema.item, call.value.items[i], call.order).ok

\* C26: validate of an array of length n against an array schema with
\* bounds min and max succeeds iff min <= n <= max (an unset bound does not
\* constrain) and every item validates; n < min fails with
\* ArrayMinViolation and n > max with ArrayMaxViolation.
C26_ValidateArray ==
  ArrayValidated =>
     /\ ArrayOkIffWithinBounds
     /\ BelowMin => ~call.result.ok /\ call.result.err.kind = "ArrayMinViolation"
     /\ AboveMax => ~call.result.ok /\ call.result.err.kind = "ArrayMaxViolation"

\* C26, amended: the lower bound is looked at first, so n > max fails with
\* ArrayMaxViolation only when n is not also below min (a schema may have
\* min > max); the errors carry the bound and n.
C26_ValidateArrayMinFirst ==
  ArrayValidated =>
     /\ ArrayOkIffWithinBounds
     /\ BelowMin =>
          call.result = Err(ArrayMinViolation(obj.schema.min.val, Len(call.value.items)))
     /\ (AboveMax /\ ~BelowMin) =>
          call.result = Err(ArrayMaxViolation(obj.schema.max.val, Len(call.value.items)))

\* an array of two numbers is accepted by an array schema of numbers with
\* both bounds set
C26_Witness ==
  /\ ArrayValidated
  /\ obj.schema = [kind |-> "Array", item |-> Schema_number, min |-> Some(1), max |-> Some(2)]
  /\ Len(call.value.items) = 2
  /\ call.result = Ok(call.value)

----------------------------------------------------------------------------
(* Scenes and the world (engine/scene.rs, engine/world.rs) *)

MaxScenes == 2

\* RefCell::try_borrow_mut on a cell whose borrow flag is given: the flag of
\* the cell once it is mutably borrowed, or the BorrowMutError turned into
\* TetronError::Runtime
try_borrow_mut(borrow) ==
  IF borrow = "unused" THEN Ok("writing") ELSE Err("Runtime")

Scene_new ==
  [systems |-> EmptyMap, borrow |-> "unused"]

Ctx_new(dt) ==
  [dt |-> dt]

\* for system in systems.values() { system.call((ctx,)).expect(..)? }
\* a system is the result its function returns
RECURSIVE call_systems(_, _, _, _)
call_systems(systems, names, ctx, called) ==
  IF names = <<>> THEN [result |-> Ok("unit"), called |-> called]
  ELSE LET entered == Append(called, [system |-> Head(names), ctx |-> ctx])
       IN  IF systems[Head(names)] = "ok"
           THEN call_systems(systems, Tail(names), ctx, entered)
           ELSE [result |-> Err("Runtime"), called |-> entered]

\* SceneRef::update: the RefMut taken first is alive until update returns,
\* and the loop asks the same cell for a second one
SceneRef_update(self, dt, order) ==
  LET scene == try_borrow_mut(self.borrow)
  IN  IF ~scene.ok THEN [result |-> scene, called |-> <<>>]
      ELSE LET systems == try_borrow_mut(scene.val)
           IN  IF ~systems.ok THEN [result |-> systems, called |-> <<>>]
               ELSE call_systems(self.systems, iteration(self.systems, order),
                                 Ctx_new(dt), <<>>)

\* World::game_loop, given the scenes the SceneRefs point to
World_game_loop(self, dt, order) ==
  IF self.current_scene.some
  THEN SceneRef_update(self.heap[self.current_scene.val[2]], dt, order)
  ELSE [result |-> Ok("unit"), called |-> <<>>]

\* heap: the scenes made so far, a SceneRef being an index into it
World_new ==
  [kind |-> "world", heap |-> <<>>, scenes |-> EmptyMap, current_scene |-> None]

SystemNames ==
  {"move", "draw"}

SystemOrders ==
  {<<"move", "draw">>, <<"draw", "move">>}

SystemFunctions ==
  {"ok", "err"}

SceneNames ==
  {"main", "menu"}

Deltas ==
  {16, 33}

InitScene ==
  /\ phase = "init"
  /\ zipfs = NoStore
  /\ args = NoArgs
  /\ fs = NoStore
  /\ call = NoCall
  /\ obj = NoObject

\* WorldRef::new, before the game script runs
WorldNew ==
  /\ phase = "init"
  /\ obj' = World_new
  /\ phase' = "script"
  /\ UNCHANGED <<zipfs, args, fs, call>>

\* world.scene(config)
WorldScene ==
  /\ phase = "script"
  /\ Len(obj.heap) < MaxScenes
  /\ obj' = [obj EXCEPT !.heap = Append(@, Scene_new)]
  /\ UNCHANGED <<phase, zipfs, args, fs, call>>

\* scene.system(name, f)
SceneSystem ==
  /\ phase = "script"
  /\ \E scene \in 1..Len(obj.heap), name \in SystemNames, f \in SystemFunctions :
        /\ try_borrow_mut(obj.heap[scene].borrow).ok
        /\ obj' = [obj EXCEPT !.heap[scene].systems = Put(@, name, f)]
  /\ UNCHANGED <<phase, zipfs, args, fs, call>>

\* world.insert(name, scene)
WorldInsert ==
  /\ phase = "script"
  /\ \E name \in SceneNames, scene \in 1..Len(obj.heap) :
        obj' = [obj EXCEPT !.scenes = Put(@, name, scene)]
  /\ UNCHANGED <<phase, zipfs, args, fs, call>>

\* world.load_scene(name)
WorldLoadScene ==
  /\ phase = "script"
  /\ \E name \in SceneNames :
        IF name \in DOMAIN obj.scenes
        THEN /\ obj' = [obj EXCEPT !.current_scene = Some(<<name, obj.scenes[name]>>)]
             /\ call' = [op |-> "load_scene", name |-> name, result |-> Ok("unit")]
        ELSE /\ call' = [op |-> "load_scene", name |-> name, result |-> Err("Runtime")]
             /\ UNCHANGED obj
  /\ UNCHANGED <<phase, zipfs, args, fs>>

\* one frame of Game::run: Game::update calls WorldRef::game_loop, and an
\* error ends the run
GameUpdate ==
  /\ phase \in {"script", "running"}
  /\ \E dt \in Deltas, order \in SystemOrders :
        LET frame == World_game_loop(obj, dt, order)
        IN  /\ call' = [op |-> "game_loop", dt |-> dt, scene |-> obj.current_scene,
                        called |-> frame.called, result |-> frame.result]
            /\ phase' = IF frame.result.ok THEN "running" ELSE "failed"
  /\ UNCHANGED <<zipfs, args, fs, obj>>

NextScene ==
  \/ WorldNew
  \/ WorldScene
  \/ SceneSystem
  \/ WorldInsert
  \/ WorldLoadScene
  \/ GameUpdate

SpecScene ==
  InitScene /\ [][NextScene]_vars

\* C27: SceneRef.update(dt) on a scene with n registered systems, no other
\* borrow of the scene being outstanding, calls each registered system
\* exactly once with the frame's context and returns Ok if every system
\* returns Ok; so World.game_loop with a current scene runs that scene's
\* systems once per frame.
C27_UpdateRunsEachSystemOnce ==
  (call.op = "game_loop" /\ call.scene.some) =>
     LET systems == obj.heap[call.scene.val[2]].systems
     IN  /\ (\A name \in DOMAIN systems : systems[name] = "ok") =>
               /\ call.result.ok
               /\ \A name \in DOMAIN systems :
                     Cardinality({i \in 1..Len(call.called) :
                                     call.called[i] = [system |-> name, ctx |-> Ctx_new(call.dt)]}) = 1
         /\ \A i \in 1..Len(call.called) : call.called[i].system \in DOMAIN systems

----------------------------------------------------------------------------
(* Behaviours (engine/behaviours.rs) *)

MaxSets == 2

\* rune values, by type hash
Value_f64(x) ==
  [hash |-> "f64", f64 |-> x]

Value_i64(x) ==
  [hash |-> "i64", i64 |-> x]

Value_String(s) ==
  [hash |-> "String", string |-> s]

Value_unit ==
  [hash |-> "unit"]

\* TryFrom<&Value> for TypedValue
TypedValue_try_from(value) ==
  CASE value.hash = "f64" -> Ok(TypedValue_Number(value.f64))
    [] value.hash = "i64" -> Ok(TypedValue_Number(value.i64))
    [] value.hash = "String" -> Ok(TypedValue_String(value.string))
    [] OTHER -> Err("Runtime")

BehaviourFactory_new(name, schema, internal) ==
  [name |-> name, schema |-> schema, internal |-> internal]

\* BehaviourFactory::with_map: how the call ends
BehaviourFactory_with_map(self, map, order) ==
  LET validated == validate(self.schema, TypedValue_Object(map), order)
  IN  IF ~validated.ok THEN Returned(Err("Runtime"))
      ELSE IF validated.val.type # "Object" THEN Unwind("unreachable")
      ELSE Returned(Ok([kind |-> "behaviour",
                        name |-> IF self.internal THEN <<"tetron:", self.name>>
                                 ELSE <<self.name>>,
                        config |-> validated.val.map,
                        schema |-> self.schema]))

Behaviour_check_field(self, field) ==
  IF self.schema.kind = "Object"
  THEN IF field \notin DOMAIN self.schema.fields THEN Err("Runtime") ELSE Ok("unit")
  ELSE Err("Runtime")

\* Behaviour::set: the behaviour afterwards, and the result
Behaviour_set(self, field, value) ==
  LET checked == Behaviour_check_field(self, field)
      typed == TypedValue_try_from(value)
  IN  IF ~checked.ok THEN [behaviour |-> self, result |-> checked]
      ELSE IF ~typed.ok THEN [behaviour |-> self, result |-> typed]
      ELSE [behaviour |-> [self EXCEPT !.config = Put(@, field, typed.val)],
            result |-> Ok("unit")]

BehaviourSchemas ==
  {ObjectBuilder_build(
      ObjectBuilder_optional_field(
         ObjectBuilder_field(ObjectBuilder_new, "n", Schema_number),
         "msg", Schema_string, Some(TypedValue_String(<<"o", "k">>)))),
   ObjectBuilder_build(ObjectBuilder_field(ObjectBuilder_new, "n", Schema_number)),
   ObjectBuilder_build(
      ObjectBuilder_optional_field(ObjectBuilder_new, "msg", Schema_string, None))}

PropertyNames ==
  FieldNames \cup {"hp"}

RuneValues ==
  {Value_f64(42), Value_i64(7), Value_String(<<"b", "a", "d">>), Value_unit}

InitBehaviour ==
  /\ phase = "init"
  /\ zipfs = NoStore
  /\ args = NoArgs
  /\ fs = NoStore
  /\ call = NoCall
  /\ obj = NoObject

\* a behaviour is defined with a schema
FactoryNew ==
  /\ phase = "init"
  /\ \E schema \in BehaviourSchemas, internal \in BOOLEAN :
        obj' = [kind |-> "factory", factory |-> BehaviourFactory_new("b", schema, internal)]
  /\ phase' = "factory"
  /\ UNCHANGED <<zipfs, args, fs, call>>

\* factory.create(config), which is with_map of the converted config
FactoryCreate ==
  /\ phase = "factory"
  /\ \E map \in {v.map : v \in ObjectValues}, order \in HashOrders :
        LET made == BehaviourFactory_with_map(obj.factory, map, order)
        IN  /\ call' = [op |-> "create", map |-> map, sets |-> 0, result |-> made]
            /\ IF made.returned /\ made.val.ok
               THEN obj' = made.val.val /\ phase' = "behaviour"
               ELSE UNCHANGED obj /\ phase' = "rejected"
  /\ UNCHANGED <<zipfs, args, fs>>

\* behaviour.set(field, value)
BehaviourSet ==
  /\ phase = "behaviour"
  /\ call.sets < MaxSets
  /\ \E field \in PropertyNames, value \in RuneValues :
        LET done == Behaviour_set(obj, field, value)
        IN  /\ obj' = done.behaviour
            /\ call' = [op |-> "set", field |-> field, value |-> value,
                        before |-> obj.config, sets |-> call.sets + 1,
                        result |-> done.result]
  /\ UNCHANGED <<phase, zipfs, args, fs>>

NextBehaviour ==
  \/ FactoryNew
  \/ FactoryCreate
  \/ BehaviourSet

SpecBehaviour ==
  InitBehaviour /\ [][NextBehaviour]_vars

\* C29: in every state of a behaviour made by a factory, after create or
\* with_map and any sequence of set calls, its config validates against the
\* factory's schema: set rejects a field the object schema does not declare
\* and leaves config unchanged, and never stores a value of a type the
\* field's schema does not accept.
C29_ConfigValidates ==
  phase = "behaviour" =>
     /\ \A order \in HashOrders :
           validate(obj.schema, TypedValue_Object(obj.config), order).ok
     /\ (call.op = "set" /\ call.field \notin DOMAIN obj.schema.fields) =>
           ~call.result.ok /\ obj.config = call.before
     /\ \A k \in DOMAIN obj.config \cap DOMAIN obj.schema.fields :
           \A order \in HashOrders :
              validate(obj.schema.fields[k].schema, obj.config[k], order).ok

----------------------------------------------------------------------------
(* The module resolver (scripting/module_resolver.rs) *)

MaxResolves == 2

LowerCase ==
  {"a", "b", "c", "d", "e", "f", "g", "h", "i", "j", "k", "l", "m",
   "n", "o", "p", "q", "r", "s", "t", "u", "v", "w", "x", "y", "z"}

\* path.contains('/')
contains_slash(path) ==
  \E i \in 1..Len(path) : path[i] = Slash

\* format!("tetron:{name}")
tetron_name(name) ==
  <<"t", "e", "t", "r", "o", "n", ":">> \o name

NativeModule(name) ==
  [origin |-> "native", name |-> name]

\* Module::eval_ast_as_new of the AST compiled from the contents of a file
FileModule(path, contents) ==
  [origin |-> "file", path |-> path, ast |-> contents]

ModuleNotFound(msg) ==
  [ok |-> FALSE, err |-> "ModuleNotFound", msg |-> msg]

\* engine.compile(&contents): the scripts that do not parse
Unparsable ==
  {[utf8 |-> <<3>>]}

TetronModuleResolver_new ==
  [kind |-> "resolver", modules |-> EmptyMap, reads |-> <<>>, resolves |-> 0]

get_cached(self, path) ==
  IF path \in DOMAIN self.modules THEN Some(self.modules[path]) ELSE None

cache_module(self, path, module) ==
  [self EXCEPT !.modules = Put(@, path, module)]

register_native_module(self, name, module) ==
  [self EXCEPT !.modules = Put(@, name, module)]

\* setup_native_module, on the resolver
setup_native_module(resolver, name, module) ==
  register_native_module(resolver, tetron_name(name), module)

\* the '/' arm of resolve: the resolver afterwards, and the result; reads
\* lists the paths read from the VFS
resolve_file(self, vfs, import) ==
  LET path == normalize_path(import)
      cached == get_cached(self, path)
      contents == read_text_file(vfs, path)
      read == [self EXCEPT !.reads = Append(@, path)]
  IN  IF cached.some THEN [resolver |-> self, result |-> Ok(cached.val)]
      ELSE IF ~contents.ok
      THEN [resolver |-> read, result |-> ModuleNotFound("Error reading file")]
      ELSE IF contents.val \in Unparsable
      THEN [resolver |-> read, result |-> ModuleNotFound("Error parsing module")]
      ELSE [resolver |-> cache_module(read, path, FileModule(path, contents.val)),
            result |-> Ok(FileModule(path, contents.val))]

\* ModuleResolver::resolve
resolve(self, vfs, path) ==
  IF path = <<>>
  THEN [resolver |-> self, result |-> ModuleNotFound("Invalid import: no module specified")]
  ELSE IF path[1] = Slash THEN resolve_file(self, vfs, path)
  ELSE IF path[1] \in LowerCase /\ ~contains_slash(path)
  THEN [resolver |-> self,
        result |-> IF get_cached(self, path).some THEN Ok(get_cached(self, path).val)
                   ELSE ModuleNotFound("Invalid import: Unknown global module")]
  ELSE IF path[1] \in LowerCase
  THEN [resolver |-> self,
        result |-> ModuleNotFound("Invalid import: global module imports should not contain '/'")]
  ELSE [resolver |-> self,
        result |-> ModuleNotFound("Invalid import: import paths must be absolute")]

NativeNames ==
  {<<"m">>, <<"n">>}

Imports ==
  {
    (* "" *) <<>>,
    (* "/m.rn" *) <<"/", "m", ".", "r", "n">>,
    (* "//m.rn/" *) <<"/", "/", "m", ".", "r", "n", "/">>,
    (* "m.rn" *) <<"m", ".", "r", "n">>,
    (* "/n.rn" *) <<"/", "n", ".", "r", "n">>,
    (* "/m/mod.rn" *) <<"/", "m", "/", "m", "o", "d", ".", "r", "n">>,
    (* "m/mod.rn" *) <<"m", "/", "m", "o", "d", ".", "r", "n">>,
    (* "/x" *) <<"/", "x">>,
    (* "m" *) <<"m">>,
    (* "tetron:m" *) tetron_name(<<"m">>),
    (* "/tetron:m" *) <<Slash>> \o tetron_name(<<"m">>),
    (* "./m.rn" *) <<".", "/", "m", ".", "r", "n">>
  }

InitResolver ==
  /\ phase = "init"
  /\ zipfs = NoStore
  /\ args = NoArgs
  /\ fs = NoStore
  /\ call = NoCall
  /\ obj = NoObject

\* TetronModuleResolver::new(fs) with an overlay of at most one layer
ResolverNew ==
  /\ phase = "init"
  /\ \E layers \in UNION {[1..n -> ModuleStores] : n \in 0..1} :
        /\ args' = [kind |-> "from_layers", layers |-> layers]
        /\ fs' = OverlayFs_from_layers(layers)
  /\ obj' = TetronModuleResolver_new
  /\ phase' = "resolver"
  /\ UNCHANGED <<zipfs, call>>

\* setup_native_module(global, name, module, resolver)
SetupNativeModule ==
  /\ phase = "resolver"
  /\ \E name \in NativeNames :
        obj' = setup_native_module(obj, name, NativeModule(name))
  /\ UNCHANGED <<phase, zipfs, args, fs, call>>

\* resolver.register_native_module(name, module)
RegisterNativeModule ==
  /\ phase = "resolver"
  /\ \E name \in NativeNames :
        obj' = register_native_module(obj, name, NativeModule(name))
  /\ UNCHANGED <<phase, zipfs, args, fs, call>>

\* an import statement: resolver.resolve(engine, None, path, pos)
Resolve ==
  /\ phase = "resolver"
  /\ obj.resolves < MaxResolves
  /\ \E path \in Imports :
        LET done == resolve(obj, fs, path)
        IN  /\ obj' = [done.resolver EXCEPT !.resolves = @ + 1]
            /\ call' = [op |-> "resolve", path |-> path, result |-> done.result]
  /\ UNCHANGED <<phase, zipfs, args, fs>>

NextResolver ==
  \/ ResolverNew
  \/ SetupNativeModule
  \/ RegisterNativeModule
  \/ Resolve

SpecResolver ==
  InitResolver /\ [][NextResolver]_vars

\* C30: resolve of an absolute import path (starting with "/") returns a
\* module compiled from the VFS file at the normalized path, or the cached
\* result of an earlier compile of that file, the file of a cached module
\* having been read once; it never returns a module registered by
\* register_native_module, and a native name never resolves to a file
\* module.
C30_FileAndNativeModulesApart ==
  (call.op = "resolve" /\ call.result.ok) =>
     /\ starts_with(call.path, <<Slash>>) =>
           /\ call.result.val.origin = "file"
           /\ call.result.val.path = normalize_path(call.path)
           /\ Ok(call.result.val.ast) = read_text_file(fs, call.path)
     /\ ~starts_with(call.path, <<Slash>>) => call.result.val.origin = "native"
     /\ \A path \in DOMAIN obj.modules :
           obj.modules[path].origin = "file" =>
              Cardinality({i \in 1..Len(obj.reads) : obj.reads[i] = path}) = 1

----------------------------------------------------------------------------
(* The overlay over layers that disagree on what a path is *)

\* archive file-s.zip: a regular file called s
FileSZip ==
  << Record(S_, <<1>>, TRUE) >>

ShadowStores ==
  {DiskFs_new(HostPath("foo", "")), DiskFs_new(HostPath("mod1", "")),
   ZipFs_new(Mod2Zip), ZipFs_new(FileSZip)}

InitShadow ==
  /\ phase = "init"
  /\ zipfs = NoStore
  /\ args = NoArgs
  /\ fs = NoStore
  /\ call = NoCall
  /\ obj = NoObject

\* OverlayFs::from_layers(layers)
MountShadow ==
  /\ phase = "init"
  /\ \E layers \in UNION {[1..n -> ShadowStores] : n \in 0..MaxLayers} :
        /\ args' = [kind |-> "from_layers", layers |-> layers]
        /\ fs' = OverlayFs_from_layers(layers)
  /\ phase' = "mounted"
  /\ UNCHANGED <<zipfs, call, obj>>

NextShadow ==
  \/ MountShadow
  \/ OverlayReadDir
  \/ OverlayMetadata

SpecShadow ==
  InitShadow /\ [][NextShadow]_vars

\* read_dir of a path other than the root has succeeded on the overlay
ListedNonRoot ==
  /\ phase = "mounted"
  /\ call.op = "read_dir"
  /\ call.result.ok
  /\ normalize_path(call.path) # <<>>

\* the layers, topmost first, that have the listed path, as a file or as a
\* directory
LayersHolding ==
  {i \in 1..Len(fs.layers) : Layer_metadata(fs.layers[i], normalize_path(call.path)).ok}

====
